---- MODULE Spec2Model ----
(***************************************************************************)
(* A model of the OCR pipeline of marksalpeter/ocr:                        *)
(*   - App.ProcessImages / processImagesParallel / processImage /          *)
(*     formatOutput / extractDate        (internal/ocr/app.go)             *)
(*   - Client.OCRImage / ocrImageOnce / isRefusalResponse  (client)        *)
(*   - Resizer.ResizeImage (resizer), Repository.GetImageNames (repository)*)
(* Spec        is the orchestrator: one run of ProcessImages, with its     *)
(*             worker pool, job sender, closer goroutine and collector.    *)
(* SpecClient  is one call of Client.OCRImage with its retry loop.         *)
(* SpecFormat  is one call of formatOutput on a list of results.           *)
(* SpecDate    is one call of extractDate on a text.                       *)
(* SpecProgress   is the orchestrator run with a progress sink.            *)
(* SpecResize     is one call of Resizer.ResizeImage.                      *)
(* SpecValidate   is one call of Client.ValidateAPIKey.                    *)
(* SpecRepository is one call of repository.New, or of GetImageNames        *)
(*             followed by LoadImageByName of a listed name.               *)
(* SpecRefusal    is one call of Client.isRefusalResponse.                 *)
(* SpecConfig     is the interactive configModel fed with keys.            *)
(* SpecSpinner    is the command's spinner called by several goroutines.   *)
(***************************************************************************)
EXTENDS Integers, Sequences, FiniteSets, Bags, TLC

VARIABLES
    \* ---- App (internal/ocr/app.go) ----
    cfgConcurrency,   \* a.config.Concurrency
    cfgStartDate,     \* a.config.StartDate
    cfgProgress,      \* a progress sink is configured
    ctxDone,          \* the run's context has been cancelled
    mainPc,           \* position of ProcessImages: "validate","start","collect","returned"
    imageNames,       \* the listing returned by GetImageNames
    concurrency,      \* local variable of processImagesParallel
    jobs,             \* buffered channel of image names
    jobsClosed,
    results,          \* buffered channel of OCRResult
    resultsClosed,
    idle,             \* number of workers blocked in `range jobs`
    busy,             \* bag of workers holding a job: [image, pc, result]
    exited,           \* number of workers that returned (wg.Done called)
    senderPc,         \* job sender goroutine: "off","send","done"
    sendIdx,          \* index of the next name the sender sends
    closerPc,         \* wg.Wait/close(results) goroutine: "off","wait","done"
    allResults,       \* the collector's slice
    saved,            \* the calls of SaveOutput: [content, err]
    ret,              \* what ProcessImages returned: [summary, err]
    \* ---- history of the run (observation only) ----
    begun,            \* bag of image names for which processImage was entered
    arrival,          \* image names in the order the collector received them
    failures,         \* the load and recognition errors that occurred
    closes,           \* number of close(results) executed
    keyChecks,        \* what the calls of ValidateAPIKey returned, in order
    listed,           \* what the calls of GetImageNames returned: [names, err]
    \* ---- progress reporting ----
    completed,        \* the shared counter of finished images
    delivered,        \* the calls of UpdateProgress, in order: [completed, total]
    \* ---- Client.OCRImage (one call) ----
    cPc,              \* "off","call","backoff" (at the select),"wait" (parked),"done"
    attempt,          \* loop variable
    attempts,         \* named result
    totalCost,        \* named result
    lastErr,
    cRet,             \* the returned tuple [text, cost, attempts, err]
    sent,             \* per-attempt (cost, err) returned by ocrImageOnce, in order
    waits,            \* the values of backoff, in milliseconds, in order
    \* ---- one call of a pure function ----
    call              \* [fn, the arguments, done, out]

appVars == <<cfgConcurrency, cfgStartDate, cfgProgress, mainPc, imageNames, concurrency, jobs,
             jobsClosed, results, resultsClosed, idle, busy, exited, senderPc,
             sendIdx, closerPc, allResults, saved, ret, begun, arrival, failures, closes,
             keyChecks, listed, completed, delivered>>
clientVars == <<cPc, attempt, attempts, totalCost, lastErr, cRet, sent, waits>>
fnVars == <<call>>
vars == <<appVars, clientVars, fnVars, ctxDone>>

\* ------------------------------------------------------------------ bounds
\* Largest number of image files in the directory.
MaxImages == 2
\* Largest value of the configured Concurrency that is tried.
MaxConcurrency == 2
\* Largest number of results handed to formatOutput.
MaxEntries == 3
\* Largest number of lines of a text handed to extractDate.
MaxLines == 6

\* ------------------------------------------------------- program constants
DefaultConcurrency == 10
MaxRetries == 5
StatusUnauthorized == 401
ScanLines == 5
BackoffFloor == 10

\* ----------------------------------------------------------------- helpers
\* Go error values: kind, the HTTP status of an *APIError, the sentinel that
\* errors.Is finds in the chain, and the text of Error().
Nil == [kind |-> "nil", status |-> 0, is |-> "", msg |-> ""]
Sentinel(name, text) == [kind |-> "sentinel", status |-> 0, is |-> name, msg |-> text]
\* fmt.Errorf("%w: %v", sentinel, cause): only the sentinel stays in the chain,
\* the cause is kept as text.
Wrapf(sentinel, cause) ==
    [kind |-> "wrapped", status |-> 0, is |-> sentinel.is,
     msg |-> sentinel.msg \o ": " \o cause.msg]
\* fmt.Errorf("%w: %s", sentinel, text)
WrapText(sentinel, text) ==
    [kind |-> "wrapped", status |-> 0, is |-> sentinel.is,
     msg |-> sentinel.msg \o ": " \o text]

ErrNoImagesFound == Sentinel("ErrNoImagesFound", "no images found in directory")
ErrProcessingFailed == Sentinel("ErrProcessingFailed", "failed to process images")

RECURSIVE SumSeq(_)
SumSeq(s) == IF s = <<>> THEN 0 ELSE Head(s) + SumSeq(Tail(s))

\* ------------------------------------------------------- package strings
\* strings.Contains(s, sub)
Contains(s, sub) ==
    \E i \in 1..(Len(s) - Len(sub) + 1) : SubSeq(s, i, i + Len(sub) - 1) = sub

\* strings.ToLower(s)
RECURSIVE ToLower(_)
ToLower(s) ==
    LET UpperLetters == "ABCDEFGHIJKLMNOPQRSTUVWXYZ"
        LowerLetters == "abcdefghijklmnopqrstuvwxyz"
        LowerChar(c) ==
            IF \E k \in 1..Len(UpperLetters) : SubSeq(UpperLetters, k, k) = c
            THEN LET k == CHOOSE k \in 1..Len(UpperLetters) : SubSeq(UpperLetters, k, k) = c
                 IN SubSeq(LowerLetters, k, k)
            ELSE c
        half == Len(s) \div 2
    IN  IF Len(s) <= 1 THEN LowerChar(s)
        ELSE ToLower(SubSeq(s, 1, half)) \o ToLower(SubSeq(s, half + 1, Len(s)))

\* strings.TrimSpace(s)
RECURSIVE TrimSpace(_)
TrimSpace(s) ==
    LET IsSpace(c) == c \in {" ", "\t", "\n", "\r", "\f"}
    IN  IF s = "" THEN ""
        ELSE IF IsSpace(SubSeq(s, 1, 1)) THEN TrimSpace(SubSeq(s, 2, Len(s)))
        ELSE IF IsSpace(SubSeq(s, Len(s), Len(s))) THEN TrimSpace(SubSeq(s, 1, Len(s) - 1))
        ELSE s

\* strings.Split(s, "\n")
RECURSIVE SplitLines(_)
SplitLines(s) ==
    IF \E i \in 1..Len(s) : SubSeq(s, i, i) = "\n"
    THEN LET i == CHOOSE i \in 1..Len(s) :
                      /\ SubSeq(s, i, i) = "\n"
                      /\ \A j \in 1..(i - 1) : SubSeq(s, j, j) # "\n"
         IN <<SubSeq(s, 1, i - 1)>> \o SplitLines(SubSeq(s, i + 1, Len(s)))
    ELSE <<s>>

Range(s) == {s[i] : i \in DOMAIN s}

\* The file names of the directory, in the order Go's string comparison gives.
FileName(i) == "Img-000" \o ToString(i) \o ".jpg"
FileNames == {FileName(i) : i \in 1..MaxImages}

\* results[i].ImageName < results[j].ImageName
NameLess(a, b) ==
    LET FileIndex(name) == CHOOSE i \in 1..MaxImages : FileName(i) = name
    IN  FileIndex(a) < FileIndex(b)

\* ------------------------------------------------------------ collaborators
\* What the Repository and the OCRClient interfaces may answer.
ErrWalkFailed ==
    [kind |-> "wrapped", status |-> 0, is |-> "fs.ErrPermission",
     msg |-> "failed to walk directory: permission denied"]
ErrFailedToSave == Sentinel("ErrFailedToSave", "failed to save output")
ErrImageNotFound(name) ==
    [kind |-> "wrapped", status |-> 0, is |-> "ErrImageNotFound",
     msg |-> "image not found: " \o name]
ErrOCR ==
    [kind |-> "wrapped", status |-> 0, is |-> "ErrMaxRetriesExceeded",
     msg |-> "max retries exceeded: API request failed: connection reset by peer"]

\* Transcriptions the remote service may return.
LineLong == "Monday, January 1, 2024"
LineNumeric == "Entry 1/2/2024"
TextDated == "Monday, January 1, 2024\nTest text 1"
TextPlain == "Test text 2"

\* GetImageNames: the base names of the image files under the directory, sorted
\* by sort.Strings (files of two subdirectories may share a base name), or an
\* error.
Listings ==
    {s \in UNION {[1..n -> FileNames] : n \in 0..MaxImages} :
        \A i \in 1..Len(s) : \A j \in 1..Len(s) : i < j => ~NameLess(s[j], s[i])}

\* LoadImageByName(name): the bytes, or an error.
LoadOutcomes(name) == {Nil, ErrImageNotFound(name)}

\* OCRImage(ctx, imageData): (text, cost, attempts, err)
OCROutcomes ==
    { [text |-> TextDated, cost |-> 10, attempts |-> 1, err |-> Nil],
      [text |-> TextPlain, cost |-> 20, attempts |-> 2, err |-> Nil],
      [text |-> "", cost |-> 5, attempts |-> 5, err |-> ErrOCR] }

StartDates == {"", "Sunday, December 31, 2023"}
ConcurrencyValues == 0..MaxConcurrency

\* --------------------------------------------------------------- extractDate
\* datePatterns[p].FindString(line), for the (trimmed) lines of the model.
PatternMatch(p, line) ==
    CASE p = 1 /\ line = LineLong -> LineLong
      [] p = 2 /\ line = LineNumeric -> "1/2/2024"
      [] p = 3 /\ line = LineLong -> "January 1, 2024"
      [] OTHER -> ""

FirstMatch(line) ==
    IF \E p \in 1..3 : PatternMatch(p, line) # ""
    THEN PatternMatch(CHOOSE p \in 1..3 :
             /\ PatternMatch(p, line) # ""
             /\ \A q \in 1..(p-1) : PatternMatch(q, line) = "", line)
    ELSE ""

\* Mutant: the loop runs `i <= 5` and scans a sixth line.
RECURSIVE ExtractFrom_OneMore(_, _)
ExtractFrom_OneMore(lines, i) ==
    IF ~(i <= Len(lines) /\ i <= ScanLines + 1) THEN ""
    ELSE LET line == TrimSpace(lines[i])
         IN IF line = "" THEN ExtractFrom_OneMore(lines, i + 1)
            ELSE IF FirstMatch(line) # "" THEN FirstMatch(line)
            ELSE ExtractFrom_OneMore(lines, i + 1)

\* for i := 0; i < len(lines) && i < 5; i++ (lines are counted from 1 here)
RECURSIVE ExtractFrom(_, _)
ExtractFrom(lines, i) ==
    IF ~(i <= Len(lines) /\ i <= ScanLines) THEN ""
    ELSE LET line == TrimSpace(lines[i])
         IN IF line = "" THEN ExtractFrom(lines, i + 1)
            ELSE IF FirstMatch(line) # "" THEN FirstMatch(line)
            ELSE ExtractFrom(lines, i + 1)

extractDate(text) == ExtractFrom(SplitLines(text), 1)

\* -------------------------------------------------------------- formatOutput
\* Mutant: the date line is written also when the date is empty.
FormatEntry_BlankDateLine(result, date) ==
    "---\n" \o result.ImageName \o "\n" \o date \o "\n" \o result.Text \o "\n"

FormatEntry(result, date) ==
    "---\n" \o result.ImageName \o "\n"
        \o (IF date # "" THEN date \o "\n" ELSE "")
        \o result.Text \o "\n"

\* Mutant: `lastDate = date` is missing, an extracted date is not carried on.
RECURSIVE FormatFrom_NoCarry(_, _)
FormatFrom_NoCarry(rs, lastDate) ==
    IF rs = <<>> THEN ""
    ELSE LET date == IF Head(rs).Date = "" THEN lastDate ELSE Head(rs).Date
         IN FormatEntry(Head(rs), date) \o FormatFrom_NoCarry(Tail(rs), lastDate)

RECURSIVE FormatFrom(_, _)
FormatFrom(rs, lastDate) ==
    IF rs = <<>> THEN ""
    ELSE LET date == IF Head(rs).Date = "" THEN lastDate ELSE Head(rs).Date
         IN FormatEntry(Head(rs), date) \o FormatFrom(Tail(rs), date)

formatOutput(rs, startDate) == FormatFrom(rs, startDate)

\* ------------------------------------------------------------- processImage
OCRResult(name, date, text, cost) ==
    [ImageName |-> name, Date |-> date, Text |-> text, Cost |-> cost, OCRAttempts |-> 0]

\* processImage stores the attempt count of the OCRImage call in the result.
WithAttempts(result, n) == [result EXCEPT !.OCRAttempts = n]

LoadFailed(name, err) ==
    OCRResult(name, "", "Error loading image: " \o err.msg, 0)

\* Mutant: a failed recognition leaves the entry's text empty.
OCRFinished_NoErrorText(name, o) ==
    IF o.err # Nil
    THEN OCRResult(name, "", "", 0)
    ELSE OCRResult(name, extractDate(o.text), o.text, o.cost)

OCRFinished(name, o) ==
    IF o.err # Nil
    THEN OCRResult(name, "", "Error processing image: " \o o.err.msg, 0)
    ELSE OCRResult(name, extractDate(o.text), o.text, o.cost)

\* ----------------------------------------------------------------- sort.Slice
Perms(n) == {p \in [1..n -> 1..n] : \A i \in 1..n : \A j \in 1..n : p[i] = p[j] => i = j}

\* Mutant: the results are left in completion order.
SortedByName_Unsorted(rs) == {rs}

SortedByName(rs) ==
    {[i \in 1..Len(rs) |-> rs[p[i]]] : p \in
        {q \in Perms(Len(rs)) : \A i \in 1..Len(rs) : \A j \in 1..Len(rs) :
            i < j => ~NameLess(rs[q[j]].ImageName, rs[q[i]].ImageName)}}

\* ------------------------------------------------------------ ProcessImages
\* The nil *ProcessImageResults.
NoSummary ==
    [TotalImagesProcessed |-> -1, TotalCost |-> 0, CostPerImage |-> <<0, 1>>,
     TotalOCRAttempts |-> 0, OCRAttemptsPerImage |-> <<0, 1>>]

\* A float64 quotient a / b is kept as the pair <<a, b>>; <<0, 1>> is the zero
\* value of a quotient that was never computed.
\* Mutant: the division is not guarded.
CostPerImage_Unguarded(total, totalImages) == <<total, totalImages>>

\* var costPerImage float64
\* if totalImages > 0 { costPerImage = totalCost / float64(totalImages) }
CostPerImage(total, totalImages) ==
    IF totalImages > 0 THEN <<total, totalImages>> ELSE <<0, 1>>

\* The attempt totals of the summary.
TotalOCRAttempts(rs) == SumSeq([i \in 1..Len(rs) |-> rs[i].OCRAttempts])
OCRAttemptsPerImage(totalAttempts, totalImages) ==
    IF totalImages > 0 THEN <<totalAttempts, totalImages>> ELSE <<0, 1>>

Summary(rs) ==
    LET totalImages == Len(rs)
        total == SumSeq([i \in 1..Len(rs) |-> rs[i].Cost])
    IN [TotalImagesProcessed |-> totalImages,
        TotalCost |-> total,
        CostPerImage |-> CostPerImage(total, totalImages),
        TotalOCRAttempts |-> TotalOCRAttempts(rs),
        OCRAttemptsPerImage |-> OCRAttemptsPerImage(TotalOCRAttempts(rs), totalImages)]

NotReturned == [summary |-> NoSummary, err |-> Nil, done |-> FALSE]
Returned(summary, err) == [summary |-> summary, err |-> err, done |-> TRUE]

\* Mutant: the save error is returned as it is, not as ErrProcessingFailed.
AfterSave_Unwrapped(sorted, saveErr) ==
    IF saveErr # Nil
    THEN Returned(NoSummary, saveErr)
    ELSE Returned(Summary(sorted), Nil)

\* Mutant: the totals are returned together with the save error.
AfterSave_SummaryWithError(sorted, saveErr) ==
    IF saveErr # Nil
    THEN Returned(Summary(sorted), Wrapf(ErrProcessingFailed, saveErr))
    ELSE Returned(Summary(sorted), Nil)

\* ProcessImages after SaveOutput: the wrapped save error, or the totals.
AfterSave(sorted, saveErr) ==
    IF saveErr # Nil
    THEN Returned(NoSummary, Wrapf(ErrProcessingFailed, saveErr))
    ELSE Returned(Summary(sorted), Nil)

\* Mutant: the worker loop runs `i <= concurrency` and starts one worker too many.
EffectiveConcurrency_OneMore(c) == IF c <= 0 THEN DefaultConcurrency ELSE c + 1

\* concurrency := a.config.Concurrency; if concurrency <= 0 { concurrency = 10 }
EffectiveConcurrency(c) == IF c <= 0 THEN DefaultConcurrency ELSE c

\* ------------------------------------------------ the run of ProcessImages
One(x) == SetToBag({x})
Task(name, pc, result) == [image |-> name, pc |-> pc, result |-> result, count |-> 0]
NoResult == OCRResult("", "", "", 0)
\* a worker that took the value n of the counter and has not reported it yet
Reporting(name, n) == [image |-> name, pc |-> "report", result |-> NoResult, count |-> n]
InFlight == BagToSet(busy)
\* workers inside processImage
NumProcessing ==
    LET Processing == {t \in InFlight : t.pc \in {"load", "ocr"}}
    IN  IF Processing = {} THEN 0 ELSE BagCardinality([t \in Processing |-> busy[t]])

clientOff ==
    /\ cPc = "off" /\ attempt = 0 /\ attempts = 0 /\ totalCost = 0
    /\ lastErr = Nil /\ sent = <<>> /\ waits = <<>>
    /\ cRet = [text |-> "", cost |-> 0, attempts |-> 0, err |-> Nil]

appOff ==
    /\ mainPc = "validate" /\ imageNames = <<>> /\ concurrency = 0
    /\ jobs = <<>> /\ jobsClosed = FALSE /\ results = <<>> /\ resultsClosed = FALSE
    /\ idle = 0 /\ busy = EmptyBag /\ exited = 0
    /\ senderPc = "off" /\ sendIdx = 1 /\ closerPc = "off"
    /\ allResults = <<>> /\ saved = <<>> /\ ret = NotReturned
    /\ begun = EmptyBag /\ arrival = <<>> /\ failures = {} /\ closes = 0
    /\ keyChecks = <<>> /\ listed = <<>>
    /\ completed = 0 /\ delivered = <<>>

\* No pure function is being called.
NoCall == [fn |-> "none"]

\* NewApp(ocrClient, repo, config)
Configured ==
    /\ cfgConcurrency \in ConcurrencyValues
    /\ cfgStartDate \in StartDates
    /\ ctxDone = FALSE
    /\ appOff
    /\ clientOff
    /\ call = NoCall

\* a run without a progress sink
Init == cfgProgress = FALSE /\ Configured

\* a run with a progress sink
InitProgress == cfgProgress = TRUE /\ Configured

\* The caller cancels the context (signal.NotifyContext in cmd/ocr/main.go).
Cancel ==
    /\ ~ctxDone
    /\ ~ret.done
    /\ ctxDone' = TRUE
    /\ UNCHANGED <<appVars, clientVars, fnVars>>

\* fmt.Errorf(text) without a wrapped sentinel
NewError(text) == [kind |-> "error", status |-> 0, is |-> "", msg |-> text]

\* &APIError{Status, Message} and its Error()
APIError(status, message) ==
    [kind |-> "APIError", status |-> status, is |-> "",
     msg |-> "API error (status " \o ToString(status) \o "): " \o message]

\* ------------------------------------------------ Client.ValidateAPIKey
ErrInvalidAPIKey == Sentinel("ErrInvalidAPIKey", "invalid API key")
StatusOK == 200
\* What client.Do(req) gives: a response with a status and a body, or an error.
KeyReplies ==
    LET statuses == {200, 201, 204, 400, 401, 403, 404, 408, 429, 500, 502, 503}
        bodies == {"", "Unauthorized", "Not found", "Rate limit exceeded",
                   "Service Unavailable"}
        errors == { "dial tcp: connection refused", "context canceled",
                    "context deadline exceeded (Client.Timeout exceeded while awaiting headers)" }
    IN  {[kind |-> "response", status |-> st, body |-> b, err |-> Nil] :
            st \in statuses, b \in bodies}
        \cup {[kind |-> "error", status |-> 0, body |-> "", err |-> NewError(t)] :
                t \in errors}

\* What ValidateAPIKey returns, and how many requests it made.
Validated(err, requests) == [err |-> err, requests |-> requests]

\* c.ValidateAPIKey(ctx), reply being the outcome of its one client.Do(req)
ValidateAPIKey(reply) ==
    IF reply.err # Nil
    THEN Validated(Wrapf(ErrInvalidAPIKey, reply.err), 1)
    ELSE IF reply.status = StatusUnauthorized THEN Validated(ErrInvalidAPIKey, 1)
    ELSE IF reply.status # StatusOK THEN Validated(APIError(reply.status, reply.body), 1)
    ELSE Validated(Nil, 1)

ValidateOutcomes == {ValidateAPIKey(reply).err : reply \in KeyReplies}

\* Mutant: a failed validation is ignored and the run goes on to the listing.
ValidateKey_Ignored ==
    /\ mainPc = "validate"
    /\ \E err \in ValidateOutcomes :
        /\ keyChecks' = Append(keyChecks, err)
        /\ mainPc' = "start"
        /\ UNCHANGED ret
    /\ UNCHANGED <<cfgConcurrency, cfgStartDate, cfgProgress, imageNames, concurrency, jobs,
                   jobsClosed, results, resultsClosed, idle, busy, exited, senderPc,
                   sendIdx, closerPc, allResults, saved, begun, arrival, failures, closes,
                   clientVars, fnVars, completed, delivered,
                   ctxDone, listed>>

\* ProcessImages: the credential is validated first; a failure ends the run.
ValidateKey ==
    /\ mainPc = "validate"
    /\ \E err \in ValidateOutcomes :
        /\ keyChecks' = Append(keyChecks, err)
        /\ IF err # Nil
           THEN /\ mainPc' = "returned"
                /\ ret' = Returned(NoSummary, err)
           ELSE /\ mainPc' = "start"
                /\ UNCHANGED ret
    /\ UNCHANGED <<cfgConcurrency, cfgStartDate, cfgProgress, imageNames, concurrency, jobs,
                   jobsClosed, results, resultsClosed, idle, busy, exited, senderPc,
                   sendIdx, closerPc, allResults, saved, begun, arrival, failures, closes,
                   clientVars, fnVars, completed, delivered,
                   ctxDone, listed>>

\* ProcessImages: GetImageNames fails.
ListFails ==
    /\ mainPc = "start"
    /\ listed' = Append(listed, [names |-> <<>>, err |-> ErrWalkFailed])
    /\ mainPc' = "returned"
    /\ ret' = Returned(NoSummary, Wrapf(ErrNoImagesFound, ErrWalkFailed))
    /\ UNCHANGED <<cfgConcurrency, cfgStartDate, cfgProgress, imageNames, concurrency, jobs,
                   jobsClosed, results, resultsClosed, idle, busy, exited, senderPc,
                   sendIdx, closerPc, allResults, saved, begun, arrival, failures, closes,
                   clientVars, fnVars, completed, delivered,
                   ctxDone, keyChecks>>

\* Mutant: an empty listing is processed like any other: an empty transcript is
\* saved and the totals of no image are returned.
ListEmpty_SavesNothing ==
    /\ mainPc = "start"
    /\ listed' = Append(listed, [names |-> <<>>, err |-> Nil])
    /\ mainPc' = "returned"
    /\ saved' = Append(saved, [content |-> formatOutput(<<>>, cfgStartDate), err |-> Nil])
    /\ ret' = Returned(Summary(<<>>), Nil)
    /\ UNCHANGED <<cfgConcurrency, cfgStartDate, cfgProgress, imageNames, concurrency, jobs,
                   jobsClosed, results, resultsClosed, idle, busy, exited, senderPc,
                   sendIdx, closerPc, allResults, begun, arrival, failures, closes,
                   clientVars, fnVars, completed, delivered, ctxDone, keyChecks>>

\* ProcessImages: the listing is empty.
ListEmpty ==
    /\ mainPc = "start"
    /\ listed' = Append(listed, [names |-> <<>>, err |-> Nil])
    /\ mainPc' = "returned"
    /\ ret' = Returned(NoSummary, ErrNoImagesFound)
    /\ UNCHANGED <<cfgConcurrency, cfgStartDate, cfgProgress, imageNames, concurrency, jobs,
                   jobsClosed, results, resultsClosed, idle, busy, exited, senderPc,
                   sendIdx, closerPc, allResults, saved, begun, arrival, failures, closes,
                   clientVars, fnVars, completed, delivered,
                   ctxDone, keyChecks>>

\* ProcessImages lists the images and processImagesParallel makes the channels
\* and starts the workers, the job sender and the closer.
StartParallel ==
    /\ mainPc = "start"
    /\ \E names \in Listings :
        /\ Len(names) > 0
        /\ imageNames' = names
        /\ listed' = Append(listed, [names |-> names, err |-> Nil])
    /\ concurrency' = EffectiveConcurrency(cfgConcurrency)
    /\ idle' = concurrency'
    /\ senderPc' = "send"
    /\ closerPc' = "wait"
    /\ mainPc' = "collect"
    /\ UNCHANGED <<cfgConcurrency, cfgStartDate, cfgProgress, jobs, jobsClosed, results,
                   resultsClosed, busy, exited, sendIdx, allResults, saved, ret,
                   begun, arrival, failures, closes, clientVars, fnVars, completed, delivered,
                   ctxDone, keyChecks>>

\* Capacity of the jobs and of the results channel.
ChanCap == Len(imageNames)

\* sender: case jobs <- name
SenderSend ==
    /\ senderPc = "send"
    /\ sendIdx <= Len(imageNames)
    /\ Len(jobs) < ChanCap
    /\ jobs' = Append(jobs, imageNames[sendIdx])
    /\ sendIdx' = sendIdx + 1
    /\ UNCHANGED <<cfgConcurrency, cfgStartDate, cfgProgress, mainPc, imageNames, concurrency,
                   jobsClosed, results, resultsClosed, idle, busy, exited, senderPc,
                   closerPc, allResults, saved, ret, begun, arrival, failures, closes,
                   clientVars, fnVars, completed, delivered,
                   ctxDone, keyChecks, listed>>

\* Mutant: the sender returns on cancellation without closing jobs.
SenderCancelled_NoClose ==
    /\ senderPc = "send"
    /\ sendIdx <= Len(imageNames)
    /\ ctxDone
    /\ senderPc' = "done"
    /\ UNCHANGED <<cfgConcurrency, cfgStartDate, cfgProgress, mainPc, imageNames, concurrency,
                   jobs, jobsClosed, results, resultsClosed, idle, busy, exited,
                   sendIdx, closerPc, allResults, saved, ret, begun, arrival,
                   failures, closes, clientVars, fnVars, completed, delivered,
                   ctxDone, keyChecks, listed>>

\* sender: case <-ctx.Done(): return, and the deferred close(jobs)
SenderCancelled ==
    /\ senderPc = "send"
    /\ sendIdx <= Len(imageNames)
    /\ ctxDone
    /\ jobsClosed' = TRUE
    /\ senderPc' = "done"
    /\ UNCHANGED <<cfgConcurrency, cfgStartDate, cfgProgress, mainPc, imageNames, concurrency,
                   jobs, results, resultsClosed, idle, busy, exited, sendIdx,
                   closerPc, allResults, saved, ret, begun, arrival, failures, closes,
                   clientVars, fnVars, completed, delivered,
                   ctxDone, keyChecks, listed>>

\* sender: the loop is over, the deferred close(jobs)
SenderClose ==
    /\ senderPc = "send"
    /\ sendIdx > Len(imageNames)
    /\ jobsClosed' = TRUE
    /\ senderPc' = "done"
    /\ UNCHANGED <<cfgConcurrency, cfgStartDate, cfgProgress, mainPc, imageNames, concurrency,
                   jobs, results, resultsClosed, idle, busy, exited, sendIdx,
                   closerPc, allResults, saved, ret, begun, arrival, failures, closes,
                   clientVars, fnVars, completed, delivered,
                   ctxDone, keyChecks, listed>>

\* worker: `for imageName := range jobs` receives a name and enters processImage
WorkerReceive ==
    /\ idle > 0
    /\ jobs # <<>>
    /\ jobs' = Tail(jobs)
    /\ idle' = idle - 1
    /\ busy' = busy (+) One(Task(Head(jobs), "load", NoResult))
    /\ begun' = begun (+) One(Head(jobs))
    /\ UNCHANGED <<cfgConcurrency, cfgStartDate, cfgProgress, mainPc, imageNames, concurrency,
                   jobsClosed, results, resultsClosed, exited, senderPc, sendIdx,
                   closerPc, allResults, saved, ret, arrival, failures, closes,
                   clientVars, fnVars, completed, delivered,
                   ctxDone, keyChecks, listed>>

\* worker: `range jobs` ends on the closed, drained channel; deferred wg.Done()
WorkerExit ==
    /\ idle > 0
    /\ jobs = <<>>
    /\ jobsClosed
    /\ idle' = idle - 1
    /\ exited' = exited + 1
    /\ UNCHANGED <<cfgConcurrency, cfgStartDate, cfgProgress, mainPc, imageNames, concurrency,
                   jobs, jobsClosed, results, resultsClosed, busy, senderPc, sendIdx,
                   closerPc, allResults, saved, ret, begun, arrival, failures, closes,
                   clientVars, fnVars, completed, delivered,
                   ctxDone, keyChecks, listed>>

\* Mutant: on a load error the worker drops the image and takes the next job.
LoadImage_DropOnError ==
    /\ \E t \in InFlight : \E err \in LoadOutcomes(t.image) :
        /\ t.pc = "load"
        /\ busy' = IF err # Nil THEN busy (-) One(t)
                   ELSE (busy (-) One(t)) (+) One(Task(t.image, "ocr", NoResult))
        /\ idle' = IF err # Nil THEN idle + 1 ELSE idle
        /\ failures' = IF err # Nil
                       THEN failures \cup {[image |-> t.image, stage |-> "load", msg |-> err.msg]}
                       ELSE failures
    /\ UNCHANGED <<cfgConcurrency, cfgStartDate, cfgProgress, mainPc, imageNames, concurrency,
                   jobs, jobsClosed, results, resultsClosed, exited, senderPc,
                   sendIdx, closerPc, allResults, saved, ret, begun, arrival,
                   closes, clientVars, fnVars, completed, delivered,
                   ctxDone, keyChecks, listed>>

\* processImage: a.repo.LoadImageByName(imageName)
LoadImage ==
    /\ \E t \in InFlight : \E err \in LoadOutcomes(t.image) :
        /\ t.pc = "load"
        /\ busy' = (busy (-) One(t)) (+)
                   One(IF err # Nil
                       THEN Task(t.image, "send", LoadFailed(t.image, err))
                       ELSE Task(t.image, "ocr", NoResult))
        /\ failures' = IF err # Nil
                       THEN failures \cup {[image |-> t.image, stage |-> "load", msg |-> err.msg]}
                       ELSE failures
    /\ UNCHANGED <<cfgConcurrency, cfgStartDate, cfgProgress, mainPc, imageNames, concurrency,
                   jobs, jobsClosed, results, resultsClosed, idle, exited, senderPc,
                   sendIdx, closerPc, allResults, saved, ret, begun, arrival,
                   closes, clientVars, fnVars, completed, delivered,
                   ctxDone, keyChecks, listed>>

\* processImage: a.ocrClient.OCRImage(ctx, imageData), extractDate, return
RecognizeImage ==
    /\ \E t \in InFlight : \E o \in OCROutcomes :
        /\ t.pc = "ocr"
        /\ busy' = (busy (-) One(t)) (+) One(Task(t.image, "send",
                                         WithAttempts(OCRFinished(t.image, o), o.attempts)))
        /\ failures' = IF o.err # Nil
                       THEN failures \cup {[image |-> t.image, stage |-> "ocr", msg |-> o.err.msg]}
                       ELSE failures
    /\ UNCHANGED <<cfgConcurrency, cfgStartDate, cfgProgress, mainPc, imageNames, concurrency,
                   jobs, jobsClosed, results, resultsClosed, idle, exited, senderPc,
                   sendIdx, closerPc, allResults, saved, ret, begun, arrival,
                   closes, clientVars, fnVars, completed, delivered,
                   ctxDone, keyChecks, listed>>

\* worker: results <- result, then the progress report if there is a sink,
\* then back to `range jobs`
WorkerSend ==
    /\ \E t \in InFlight :
        /\ t.pc = "send"
        /\ Len(results) < ChanCap
        /\ results' = Append(results, t.result)
        /\ busy' = IF cfgProgress
                   THEN (busy (-) One(t)) (+) One(Task(t.image, "count", NoResult))
                   ELSE busy (-) One(t)
    /\ idle' = IF cfgProgress THEN idle ELSE idle + 1
    /\ UNCHANGED <<cfgConcurrency, cfgStartDate, cfgProgress, mainPc, imageNames, concurrency,
                   jobs, jobsClosed, resultsClosed, exited, senderPc, sendIdx,
                   closerPc, allResults, saved, ret, begun, arrival, failures, closes,
                   clientVars, fnVars, completed, delivered,
                   ctxDone, keyChecks, listed>>

\* worker: the image is finished, the shared counter is incremented atomically
CountCompleted ==
    /\ \E t \in InFlight :
        /\ t.pc = "count"
        /\ completed' = completed + 1
        /\ busy' = (busy (-) One(t)) (+) One(Reporting(t.image, completed + 1))
    /\ UNCHANGED <<cfgConcurrency, cfgStartDate, cfgProgress, mainPc, imageNames, concurrency,
                   jobs, jobsClosed, results, resultsClosed, idle, exited, senderPc,
                   sendIdx, closerPc, allResults, saved, ret, begun, arrival, failures,
                   closes, clientVars, fnVars, delivered,
                   ctxDone, keyChecks, listed>>

\* worker: progress.UpdateProgress(completed, total) with the value it took,
\* called from the worker's own goroutine; then back to `range jobs`
ReportProgress ==
    /\ \E t \in InFlight :
        /\ t.pc = "report"
        /\ delivered' = Append(delivered, [completed |-> t.count,
                                           total |-> Len(imageNames)])
        /\ busy' = busy (-) One(t)
    /\ idle' = idle + 1
    /\ UNCHANGED <<cfgConcurrency, cfgStartDate, cfgProgress, mainPc, imageNames, concurrency,
                   jobs, jobsClosed, results, resultsClosed, exited, senderPc,
                   sendIdx, closerPc, allResults, saved, ret, begun, arrival, failures,
                   closes, clientVars, fnVars, completed,
                   ctxDone, keyChecks, listed>>

\* Mutant: the closer closes results without waiting for the workers.
CloseResults_NoWait ==
    /\ closerPc = "wait"
    /\ resultsClosed' = TRUE
    /\ closes' = closes + 1
    /\ closerPc' = "done"
    /\ UNCHANGED <<cfgConcurrency, cfgStartDate, cfgProgress, mainPc, imageNames, concurrency,
                   jobs, jobsClosed, results, idle, busy, exited, senderPc, sendIdx,
                   allResults, saved, ret, begun, arrival, failures, clientVars, fnVars, completed, delivered,
                   ctxDone, keyChecks, listed>>

\* closer: wg.Wait() returns, close(results)
CloseResults ==
    /\ closerPc = "wait"
    /\ exited = concurrency
    /\ resultsClosed' = TRUE
    /\ closes' = closes + 1
    /\ closerPc' = "done"
    /\ UNCHANGED <<cfgConcurrency, cfgStartDate, cfgProgress, mainPc, imageNames, concurrency,
                   jobs, jobsClosed, results, idle, busy, exited, senderPc, sendIdx,
                   allResults, saved, ret, begun, arrival, failures, clientVars, fnVars, completed, delivered,
                   ctxDone, keyChecks, listed>>

\* collector: `for result := range results` appends one result
Collect ==
    /\ mainPc = "collect"
    /\ results # <<>>
    /\ allResults' = Append(allResults, Head(results))
    /\ results' = Tail(results)
    /\ arrival' = Append(arrival, Head(results).ImageName)
    /\ UNCHANGED <<cfgConcurrency, cfgStartDate, cfgProgress, mainPc, imageNames, concurrency,
                   jobs, jobsClosed, resultsClosed, idle, busy, exited, senderPc,
                   sendIdx, closerPc, saved, ret, begun, failures, closes,
                   clientVars, fnVars, completed, delivered,
                   ctxDone, keyChecks, listed>>

\* collector: `range results` ends; ProcessImages sorts, formats, saves and
\* returns the totals, or the save error.
Aggregate ==
    /\ mainPc = "collect"
    /\ results = <<>>
    /\ resultsClosed
    /\ \E sorted \in SortedByName(allResults) : \E saveErr \in {Nil, ErrFailedToSave} :
        /\ allResults' = sorted
        /\ saved' = Append(saved, [content |-> formatOutput(sorted, cfgStartDate),
                                   err |-> saveErr])
        /\ ret' = AfterSave(sorted, saveErr)
    /\ mainPc' = "returned"
    /\ UNCHANGED <<cfgConcurrency, cfgStartDate, cfgProgress, imageNames, concurrency, jobs,
                   jobsClosed, results, resultsClosed, idle, busy, exited, senderPc,
                   sendIdx, closerPc, begun, arrival, failures, closes, clientVars, fnVars, completed, delivered,
                   ctxDone, keyChecks, listed>>

Next ==
    \/ Cancel
    \/ ValidateKey
    \/ ListFails
    \/ ListEmpty
    \/ StartParallel
    \/ SenderSend
    \/ SenderCancelled
    \/ SenderClose
    \/ WorkerReceive
    \/ WorkerExit
    \/ LoadImage
    \/ RecognizeImage
    \/ WorkerSend
    \/ CloseResults
    \/ Collect
    \/ Aggregate

Spec == Init /\ [][Next]_vars

\* The run with a progress sink: the workers also count and report.
NextProgress ==
    \/ Next
    \/ CountCompleted
    \/ ReportProgress

SpecProgress == InitProgress /\ [][NextProgress]_vars

\* The goroutines are scheduled fairly and the collaborators' calls return;
\* nothing obliges the caller to cancel.
FairSpec ==
    /\ Spec
    /\ WF_vars(ValidateKey)
    /\ WF_vars(ListFails \/ ListEmpty \/ StartParallel)
    /\ WF_vars(SenderSend) /\ WF_vars(SenderCancelled) /\ WF_vars(SenderClose)
    /\ WF_vars(WorkerReceive) /\ WF_vars(WorkerExit)
    /\ WF_vars(LoadImage) /\ WF_vars(RecognizeImage) /\ WF_vars(WorkerSend)
    /\ WF_vars(CloseResults) /\ WF_vars(Collect) /\ WF_vars(Aggregate)

\* ============================================ Client.OCRImage (one call)
ErrAPIRequestFailed == Sentinel("ErrAPIRequestFailed", "API request failed")
ErrMaxRetriesExceeded == Sentinel("ErrMaxRetriesExceeded", "max retries exceeded")
ErrRefusalResponse == Sentinel("ErrRefusalResponse", "GPT refused to process image")
ErrCanceled == Sentinel("context.Canceled", "context canceled")

\* isRefusalResponse: the phrases of the short and of the comprehensive list
shortRefusalPatterns ==
    { "i'm sorry", "i can't", "i cannot", "unable to", "can't assist", "can't help",
      "can't transcribe", "cannot transcribe", "unable to transcribe", "i'm unable",
      "sorry, i can't" }

refusalPatterns ==
    { "i'm sorry, i can't", "i'm sorry, i cannot", "i can't assist", "i cannot assist",
      "i'm unable to assist", "i cannot help", "i can't help", "i'm sorry, i can't help",
      "i'm sorry, i can't assist", "i'm sorry, i cannot assist",
      "i'm sorry, i can't transcribe", "i'm sorry, i cannot transcribe",
      "i can't transcribe", "i cannot transcribe", "unable to transcribe",
      "can't transcribe", "cannot transcribe", "can't transcribe the text",
      "cannot transcribe the text", "unable to transcribe the text",
      "can't transcribe text from", "cannot transcribe text from",
      "unable to transcribe text from", "can't transcribe the text from the image",
      "cannot transcribe the text from the image",
      "unable to transcribe the text from the image",
      "can't transcribe the text from this image",
      "cannot transcribe the text from this image",
      "unable to transcribe the text from this image", "content policy",
      "against my usage policies", "against my policies", "inappropriate content",
      "violates my", "against my guidelines", "i'm not able to", "i am not able to",
      "not able to transcribe", "not able to assist", "not able to help" }

ShortResponseLen == 100

\* Mutant: the phrases are looked for in the text as written, case included.
isRefusalResponse_CaseSensitive(text) ==
    IF text = "" THEN FALSE
    ELSE LET textLower == TrimSpace(text)
         IN \/ /\ Contains(textLower, "sorry")
               /\ Contains(textLower, "transcribe")
               /\ \/ Contains(textLower, "can't")
                  \/ Contains(textLower, "cannot")
                  \/ Contains(textLower, "unable")
            \/ /\ Len(text) < ShortResponseLen
               /\ \E pattern \in shortRefusalPatterns : Contains(textLower, pattern)
            \/ \E pattern \in refusalPatterns : Contains(textLower, pattern)

isRefusalResponse(text) ==
    IF text = "" THEN FALSE
    ELSE LET textLower == ToLower(TrimSpace(text))
         IN \/ /\ Contains(textLower, "sorry")
               /\ Contains(textLower, "transcribe")
               /\ \/ Contains(textLower, "can't")
                  \/ Contains(textLower, "cannot")
                  \/ Contains(textLower, "unable")
            \/ /\ Len(text) < ShortResponseLen
               /\ \E pattern \in shortRefusalPatterns : Contains(textLower, pattern)
            \/ \E pattern \in refusalPatterns : Contains(textLower, pattern)

\* Pricing, in units of 10^-5 dollar per token:
\* (inputTokens/1000)*0.01 + (outputTokens/1000)*0.03
InputRate == 1
OutputRate == 3
TokenCost(inputTokens, outputTokens) == inputTokens * InputRate + outputTokens * OutputRate

\* What c.openAIClient.CreateChatCompletion may answer.
Response(kind, status, message, content, prompt, completion) ==
    [kind |-> kind, status |-> status, message |-> message, content |-> content,
     prompt |-> prompt, completion |-> completion]
Responses ==
    { Response("apiError", StatusUnauthorized, "Incorrect API key provided", "", 0, 0),
      Response("apiError", 429, "Rate limit reached", "", 0, 0),
      Response("transport", 0, "connection reset by peer", "", 0, 0),
      Response("noChoices", 200, "", "", 900, 0),
      Response("ok", 200, "", TextDated, 1000, 200),
      Response("ok", 200, "", TextPlain, 1100, 50),
      Response("ok", 200, "", "I'm sorry, I can't transcribe the text from the image.",
               1000, 20),
      Response("ok", 200, "", "This request is against my usage policies", 1000, 10) }

Once(text, cost, err) == [text |-> text, cost |-> cost, err |-> err]

\* Mutant: the refusal check is missing, a refusal is returned as a transcription.
ocrImageOnce_NoRefusalCheck(resp) ==
    CASE resp.kind = "apiError" -> Once("", 0, APIError(resp.status, resp.message))
      [] resp.kind = "transport" -> Once("", 0, WrapText(ErrAPIRequestFailed, resp.message))
      [] resp.kind = "noChoices" ->
            Once("", 0, WrapText(ErrAPIRequestFailed, "no choices in response"))
      [] OTHER -> Once(resp.content, TokenCost(resp.prompt, resp.completion), Nil)

\* ocrImageOnce: (text, cost, err) for the answer of the remote service. The
\* refusal branch returns the named result cost before it is computed: 0.
ocrImageOnce(resp) ==
    CASE resp.kind = "apiError" -> Once("", 0, APIError(resp.status, resp.message))
      [] resp.kind = "transport" -> Once("", 0, WrapText(ErrAPIRequestFailed, resp.message))
      [] resp.kind = "noChoices" ->
            Once("", 0, WrapText(ErrAPIRequestFailed, "no choices in response"))
      [] OTHER ->
            IF isRefusalResponse(resp.content)
            THEN Once("", 0, WrapText(ErrRefusalResponse, resp.content))
            ELSE Once(resp.content, TokenCost(resp.prompt, resp.completion), Nil)

\* Mutant: the loop runs `attempt <= maxRetries`.
LoopContinues_OneMore(a) == a <= MaxRetries

\* for attempt := 0; attempt < maxRetries; attempt++
LoopContinues(a) == a < MaxRetries

\* Mutant: authentication errors are retried like the others.
IsUnauthorized_Never(err) == FALSE

\* apiErr, ok := err.(*APIError); ok && apiErr.Status == http.StatusUnauthorized
IsUnauthorized(err) == err.kind = "APIError" /\ err.status = StatusUnauthorized

\* Mutant: the attempt's cost is not added.
Accumulate_Dropped(total, cost) == total

\* totalCost += cost
Accumulate(total, cost) == total + cost

\* 1 << uint(n)

Max(a, b) == IF a >= b THEN a ELSE b

\* backoff := max(time.Duration(1<<uint(attempt-1))*time.Millisecond,
\*                10*time.Millisecond), in milliseconds
Backoff(a) ==
    LET RECURSIVE Pow2(_)
        Pow2(n) == IF n = 0 THEN 1 ELSE 2 * Pow2(n - 1)
    IN  Max(Pow2(a - 1), BackoffFloor)

\* Mutant: an error return carries the error's message as its text.
OCRReturn_MessageAsText(text, cost, n, err) ==
    [text |-> IF err # Nil THEN err.msg ELSE text, cost |-> cost, attempts |-> n, err |-> err]

OCRReturn(text, cost, n, err) == [text |-> text, cost |-> cost, attempts |-> n, err |-> err]

InitClient ==
    /\ cfgConcurrency = 1
    /\ cfgStartDate = ""
    /\ cfgProgress = FALSE
    /\ ctxDone = FALSE
    /\ appOff
    /\ clientOff
    /\ call = NoCall

\* OCRImage is called: the first iteration counts its attempt and does not wait.
OCRImageEnter ==
    /\ cPc = "off"
    /\ attempt' = 0
    /\ attempts' = 1
    /\ totalCost' = 0
    /\ cPc' = "call"
    /\ UNCHANGED <<appVars, fnVars, ctxDone, lastErr, cRet, sent, waits>>

\* select: neither case is ready, the goroutine parks on both channels
BackoffPark ==
    /\ cPc = "backoff"
    /\ ~ctxDone
    /\ cPc' = "wait"
    /\ UNCHANGED <<appVars, fnVars, ctxDone, attempt, attempts, totalCost, lastErr, cRet, sent,
                   waits>>

\* Mutant: the wait is a plain sleep, the timer ends it whatever the context.
BackoffElapsed_IgnoresCancel ==
    /\ cPc \in {"backoff", "wait"}
    /\ cPc' = "call"
    /\ UNCHANGED <<appVars, fnVars, ctxDone, attempt, attempts, totalCost, lastErr, cRet, sent,
                   waits>>

\* select: case <-time.After(backoff). The timer's channel is ready when the
\* select is evaluated (both cases may then be ready and either is chosen), or
\* it wakes the parked goroutine; a goroutine parked when the context is
\* cancelled is woken by the close of Done and takes that case.
BackoffElapsed ==
    /\ cPc = "backoff" \/ (cPc = "wait" /\ ~ctxDone)
    /\ cPc' = "call"
    /\ UNCHANGED <<appVars, fnVars, ctxDone, attempt, attempts, totalCost, lastErr, cRet, sent,
                   waits>>

\* select: case <-ctx.Done(): return "", totalCost, attempts, ctx.Err()
BackoffCancelled ==
    /\ cPc \in {"backoff", "wait"}
    /\ ctxDone
    /\ cRet' = OCRReturn("", totalCost, attempts, ErrCanceled)
    /\ cPc' = "done"
    /\ UNCHANGED <<appVars, fnVars, ctxDone, attempt, attempts, totalCost, lastErr, sent, waits>>

\* One attempt: ocrImageOnce, the accumulation of its cost, and the rest of the
\* loop body up to the next wait or the return.
OCRAttempt ==
    /\ cPc = "call"
    /\ \E resp \in Responses :
        LET o == ocrImageOnce(resp)
            cost == Accumulate(totalCost, o.cost)
        IN /\ sent' = Append(sent, [resp |-> resp, cost |-> o.cost, err |-> o.err])
           /\ totalCost' = cost
           /\ IF o.err = Nil
              THEN /\ cRet' = OCRReturn(o.text, cost, attempts, Nil)
                   /\ cPc' = "done"
                   /\ UNCHANGED <<attempt, attempts, lastErr, waits>>
              ELSE /\ lastErr' = o.err
                   /\ IF IsUnauthorized(o.err)
                      THEN /\ cRet' = OCRReturn("", cost, attempts, o.err)
                           /\ cPc' = "done"
                           /\ UNCHANGED <<attempt, attempts, waits>>
                      ELSE /\ attempt' = attempt + 1
                           /\ IF LoopContinues(attempt + 1)
                              THEN /\ attempts' = attempts + 1
                                   /\ waits' = Append(waits, Backoff(attempt + 1))
                                   /\ cPc' = "backoff"
                                   /\ UNCHANGED cRet
                              ELSE /\ cRet' = OCRReturn("", cost, attempts,
                                                        Wrapf(ErrMaxRetriesExceeded, o.err))
                                   /\ cPc' = "done"
                                   /\ UNCHANGED <<attempts, waits>>
    /\ UNCHANGED <<appVars, fnVars, ctxDone>>

NextClient ==
    \/ Cancel
    \/ OCRImageEnter
    \/ BackoffPark
    \/ BackoffElapsed
    \/ BackoffCancelled
    \/ OCRAttempt

SpecClient == InitClient /\ [][NextClient]_vars

\* ===================================== formatOutput and extractDate alone
\* strings.Join(lines, "\n")
RECURSIVE JoinLines(_)
JoinLines(lines) ==
    IF Len(lines) = 0 THEN ""
    ELSE IF Len(lines) = 1 THEN lines[1]
    ELSE lines[1] \o "\n" \o JoinLines(Tail(lines))

\* The results handed to formatOutput: entry i is the i-th image, with or
\* without a date of its own, and a text of one or two lines.
FormatDates == {"", "Monday, January 1, 2024", "Tuesday, January 2, 2024"}
FormatTexts == {"First page text", TextDated}
ResultLists ==
    UNION {{[i \in 1..n |-> OCRResult(FileName(i), d[i], t[i], 0)] :
                d \in [1..n -> FormatDates], t \in [1..n -> FormatTexts]} :
           n \in 0..MaxEntries}

idleRun ==
    /\ cfgConcurrency = 1
    /\ cfgProgress = FALSE
    /\ cfgStartDate = ""
    /\ ctxDone = FALSE
    /\ appOff
    /\ clientOff

InitFormat ==
    /\ idleRun
    /\ call \in {[fn |-> "formatOutput", results |-> rs, startDate |-> d,
                  done |-> FALSE, out |-> ""] : rs \in ResultLists, d \in StartDates}

\* output := a.formatOutput(results, startDate)
FormatOutputCall ==
    /\ call.fn = "formatOutput"
    /\ ~call.done
    /\ call' = [call EXCEPT !.done = TRUE,
                            !.out = formatOutput(call.results, call.startDate)]
    /\ UNCHANGED <<appVars, clientVars, ctxDone>>

SpecFormat == InitFormat /\ [][FormatOutputCall]_vars

\* The texts handed to extractDate: up to MaxLines lines, each blank, plain,
\* a long-form date or an indented line holding a numeric date.
TextLines == {"", "Some text", LineLong, "  " \o LineNumeric}
DateTexts ==
    {JoinLines(ls) : ls \in UNION {[1..n -> TextLines] : n \in 1..MaxLines}}

InitDate ==
    /\ idleRun
    /\ call \in {[fn |-> "extractDate", text |-> t, done |-> FALSE, out |-> ""] :
                    t \in DateTexts}

\* date := extractDate(text)
ExtractDateCall ==
    /\ call.fn = "extractDate"
    /\ ~call.done
    /\ call' = [call EXCEPT !.done = TRUE, !.out = extractDate(call.text)]
    /\ UNCHANGED <<appVars, clientVars, ctxDone>>

SpecDate == InitDate /\ [][ExtractDateCall]_vars

\* ------------------------------------------------- internal/ocr/resizer
\* Image sides: every side up to MaxSide, and the sides the package's tests use.
MaxSide == 5
Sides == (1..MaxSide) \cup {570, 1000, 1500, 1501, 2000, 2707, 3000, 4032}
\* maxDimension values: non-positive ones, small ones and the caller's 1500.
MaxDimensions == ((0 - 1)..MaxSide) \cup {1500}

\* fmt.Errorf(prefix + ": %w", cause)
Because(prefix, cause) ==
    [kind |-> "wrapped", status |-> 0, is |-> cause.is, msg |-> prefix \o ": " \o cause.msg]

\* A []byte holding an image: the container format, the picture's size and
\* which encoder wrote it (bytes of two encoders are never equal).
Bytes(format, width, height, encoder) ==
    [format |-> format, width |-> width, height |-> height, encoder |-> encoder]
NilBytes == Bytes("", 0, 0, "")
\* []byte("not an image")
NotAnImage == Bytes("text", 0, 0, "source")
\* the codecs in the order decodeImage tries them
Codecs == <<"webp", "png", "jpeg", "gif">>
ImageData ==
    {Bytes(f, w, h, "source") : f \in Range(Codecs), w \in Sides, h \in Sides}
        \cup {NotAnImage}

\* r.decodeImage(data): webp.Decode, png.Decode, jpeg.Decode and gif.Decode
\* are tried in this order; each succeeds on data of its own format.
decodeImage(data) ==
    LET Decodes(codec) == data.format = codec
        RECURSIVE From(_)
        From(i) ==
            IF i > Len(Codecs)
            THEN [width |-> 0, height |-> 0, format |-> "",
                  err |-> NewError("unsupported image format or invalid image data")]
            ELSE IF Decodes(Codecs[i])
            THEN [width |-> data.width, height |-> data.height, format |-> Codecs[i],
                  err |-> Nil]
            ELSE From(i + 1)
    IN  From(1)

encodeImage_AlwaysJPEG(width, height, format) ==
    [data |-> Bytes("jpeg", width, height, "resizer"), err |-> Nil]

\* r.encodeImage(dst, format); png.Encoder.Encode rejects an image with a
\* zero side, jpeg.Encode and gif.Encode write it.
encodeImage(width, height, format) ==
    CASE format = "jpeg" -> [data |-> Bytes("jpeg", width, height, "resizer"), err |-> Nil]
      [] format = "png" ->
            IF width <= 0 \/ height <= 0
            THEN [data |-> NilBytes,
                  err |-> Because("failed to encode PNG", NewError("png: invalid format: invalid image size"))]
            ELSE [data |-> Bytes("png", width, height, "resizer"), err |-> Nil]
      [] format = "gif" -> [data |-> Bytes("gif", width, height, "resizer"), err |-> Nil]
      [] format = "webp" -> [data |-> Bytes("jpeg", width, height, "resizer"), err |-> Nil]
      [] OTHER ->
            [data |-> NilBytes, err |-> NewError("unsupported format for encoding: " \o format)]

SmallEnough_Strict(longestDim, maxDimension) == longestDim < maxDimension

\* if longestDim <= maxDimension { return imageData, nil }
SmallEnough(longestDim, maxDimension) == longestDim <= maxDimension

NewSize_Ceiling(width, height, maxDimension) ==
    IF width > height
    THEN [width |-> maxDimension, height |-> (height * maxDimension + width - 1) \div width]
    ELSE [width |-> (width * maxDimension + height - 1) \div height, height |-> maxDimension]

NewSize_Nearest(width, height, maxDimension) ==
    IF width > height
    THEN [width |-> maxDimension, height |-> (2 * height * maxDimension + width) \div (2 * width)]
    ELSE [width |-> (2 * width * maxDimension + height) \div (2 * height), height |-> maxDimension]

NewSize_WidthFirst(width, height, maxDimension) ==
    [width |-> maxDimension, height |-> (height * maxDimension) \div width]

\* newWidth, newHeight: Go's integer division of non-negative operands
NewSize(width, height, maxDimension) ==
    IF width > height
    THEN [width |-> maxDimension, height |-> (height * maxDimension) \div width]
    ELSE [width |-> (width * maxDimension) \div height, height |-> maxDimension]

\* What ResizeImage returns, and whether it called encodeImage.
Resized(data, err, encoded) == [data |-> data, err |-> err, encoded |-> encoded]

Rescale(imageData, maxDimension) ==
    LET img == decodeImage(imageData)
        longestDim == IF img.height > img.width THEN img.height ELSE img.width
    IN  IF img.err # Nil
        THEN Resized(NilBytes, Because("failed to decode image", img.err), FALSE)
        ELSE IF SmallEnough(longestDim, maxDimension)
        THEN Resized(imageData, Nil, FALSE)
        ELSE LET new == NewSize(img.width, img.height, maxDimension)
                 enc == encodeImage(new.width, new.height, img.format)
             IN  Resized(enc.data, enc.err, TRUE)

ResizeImage_NoDimensionCheck(imageData, maxDimension) == Rescale(imageData, maxDimension)

\* r.ResizeImage(imageData, maxDimension)
ResizeImage(imageData, maxDimension) ==
    IF maxDimension <= 0
    THEN Resized(NilBytes, NewError("maxDimension must be positive"), FALSE)
    ELSE Rescale(imageData, maxDimension)

InitResize ==
    /\ idleRun
    /\ call \in {[fn |-> "ResizeImage", imageData |-> d, maxDimension |-> m,
                  done |-> FALSE, out |-> Resized(NilBytes, Nil, FALSE)] :
                    d \in ImageData, m \in MaxDimensions}

\* result, err := r.ResizeImage(imageData, maxDimension)
ResizeImageCall ==
    /\ call.fn = "ResizeImage"
    /\ ~call.done
    /\ call' = [call EXCEPT !.done = TRUE,
                            !.out = ResizeImage(call.imageData, call.maxDimension)]
    /\ UNCHANGED <<appVars, clientVars, ctxDone>>

SpecResize == InitResize /\ [][ResizeImageCall]_vars

\* ----------------------------------------- Client.ValidateAPIKey (one call)
InitValidate ==
    /\ idleRun
    /\ call \in {[fn |-> "ValidateAPIKey", reply |-> r, done |-> FALSE,
                  out |-> Validated(Nil, 0)] : r \in KeyReplies}

\* err := c.ValidateAPIKey(ctx)
ValidateAPIKeyCall ==
    /\ call.fn = "ValidateAPIKey"
    /\ ~call.done
    /\ call' = [call EXCEPT !.done = TRUE, !.out = ValidateAPIKey(call.reply)]
    /\ UNCHANGED <<appVars, clientVars, ctxDone>>

SpecValidate == InitValidate /\ [][ValidateAPIKeyCall]_vars

\* ---------------------------------------------- internal/ocr/repository
ErrDirectoryNotFound == Sentinel("ErrDirectoryNotFound", "directory not found")
imageExts == {".jpg", ".jpeg", ".png", ".gif", ".bmp", ".webp"}

\* The bytes that occur in paths, in ascending order, and Go's string <.
RECURSIVE StringLess(_, _)
StringLess(a, b) ==
    LET order == "-./0123456789ABCDEFGHIJKLMNOPQRSTUVWXYZ_abcdefghijklmnopqrstuvwxyz"
        Rank(c) == CHOOSE k \in 1..Len(order) : SubSeq(order, k, k) = c
    IN  IF b = "" THEN FALSE
        ELSE IF a = "" THEN TRUE
        ELSE IF SubSeq(a, 1, 1) = SubSeq(b, 1, 1)
        THEN StringLess(SubSeq(a, 2, Len(a)), SubSeq(b, 2, Len(b)))
        ELSE Rank(SubSeq(a, 1, 1)) < Rank(SubSeq(b, 1, 1))

\* filepath.Ext(path): from the final dot of the final element
Ext(path) ==
    LET RECURSIVE From(_)
        From(i) ==
            IF i < 1 \/ SubSeq(path, i, i) = "/" THEN ""
            ELSE IF SubSeq(path, i, i) = "." THEN SubSeq(path, i, Len(path))
            ELSE From(i - 1)
    IN  From(Len(path))

\* filepath.Base(path): the final element
Base(path) ==
    LET RECURSIVE From(_)
        From(i) ==
            IF i < 1 THEN path
            ELSE IF SubSeq(path, i, i) = "/" THEN SubSeq(path, i + 1, Len(path))
            ELSE From(i - 1)
    IN  From(Len(path))

\* filepath.Join(dir, name) and filepath.IsAbs(path)
Join(dir, name) == IF name = "" THEN dir ELSE dir \o "/" \o name
IsAbs(path) == path # "" /\ SubSeq(path, 1, 1) = "/"

\* What is under the base directory: files of the directory itself, and
\* possibly a subdirectory (named like an image) with files of its own.
BaseDir == "/images"
Entry(path, isDir) == [path |-> path, isDir |-> isDir]
SubTrees ==
    LET sub == Join(BaseDir, "old.gif")
    IN  {{}} \cup {{Entry(sub, TRUE)} \cup {Entry(Join(sub, f), FALSE) : f \in fs} :
                   fs \in SUBSET {"Img-0001.jpg", "page.webp"}}
Trees ==
    {{Entry(BaseDir, TRUE)} \cup {Entry(Join(BaseDir, f), FALSE) : f \in top} \cup sub :
        top \in SUBSET {"Img-0001.jpg", "Img-0002.JPG", "Img-0003.png", "notanimage.txt",
                         "README"}, sub \in SubTrees}

\* filepath.WalkDir visits the entries in lexical order of their paths
RECURSIVE WalkDir(_)
WalkDir(tree) ==
    IF tree = {} THEN <<>>
    ELSE LET first == CHOOSE e \in tree : \A o \in tree : ~StringLess(o.path, e.path)
         IN <<first>> \o WalkDir(tree \ {first})

\* the callback of GetImageNames, applied along the walk
RECURSIVE Visit(_, _)
Visit(walk, found) ==
    IF walk = <<>> THEN found
    ELSE LET d == Head(walk)
         IN IF d.isDir THEN Visit(Tail(walk), found)
            ELSE IF ToLower(Ext(d.path)) \in imageExts
            THEN Visit(Tail(walk), Append(found, Base(d.path)))
            ELSE Visit(Tail(walk), found)

\* sort.Strings(names)
RECURSIVE SortStrings(_)
SortStrings(names) ==
    LET RECURSIVE Insert(_, _)
        Insert(name, sorted) ==
            IF sorted = <<>> THEN <<name>>
            ELSE IF StringLess(name, Head(sorted)) THEN <<name>> \o sorted
            ELSE <<Head(sorted)>> \o Insert(name, Tail(sorted))
    IN  IF names = <<>> THEN <<>> ELSE Insert(Head(names), SortStrings(Tail(names)))

NameList(names, err) == [names |-> names, err |-> err]

\* r.GetImageNames(), walkErr being the error WalkDir hands the callback
GetImageNames(tree, walkErr) ==
    IF walkErr # Nil
    THEN NameList(<<>>, Because("failed to walk directory", walkErr))
    ELSE NameList(SortStrings(Visit(WalkDir(tree), <<>>)), Nil)

\* r.LoadImageByName(filename): os.ReadFile(filepath.Join(r.baseDir, filename)).
\* The bytes of a file are represented by its path (two files never hold the
\* same bytes); reading a directory fails with an error that is not IsNotExist.
LoadImageByName(tree, filename) ==
    LET path == Join(BaseDir, filename)
    IN  IF Entry(path, FALSE) \in tree THEN [data |-> path, err |-> Nil]
        ELSE IF Entry(path, TRUE) \in tree
        THEN [data |-> "", err |-> Wrapf(Sentinel("ErrImageNotFound", "image not found"),
                                        NewError("read " \o path \o ": is a directory"))]
        ELSE [data |-> "", err |-> ErrImageNotFound(filename)]

NoRepository == [baseDir |-> "", outputPath |-> ""]
Opened(repo, err) == [repo |-> repo, err |-> err]
\* os.Stat(baseDir): the kind of thing at the path
\* repository.New(baseDir, outputPath)
New(baseDir, outputPath, stat) ==
    LET dir == IF baseDir = "" THEN "/work" ELSE baseDir
        out == IF IsAbs(outputPath) THEN outputPath ELSE Join(dir, outputPath)
        statErr == NewError("stat " \o dir \o ": " \o
                            (IF stat = "absent" THEN "no such file or directory"
                             ELSE "permission denied"))
    IN  IF stat \in {"absent", "denied"}
        THEN Opened(NoRepository, Wrapf(ErrDirectoryNotFound, statErr))
        ELSE IF stat # "directory"
        THEN Opened(NoRepository, WrapText(ErrDirectoryNotFound, "path is not a directory"))
        ELSE Opened([baseDir |-> dir, outputPath |-> out], Nil)

InitRepository ==
    /\ idleRun
    /\ call \in
        {[fn |-> "GetImageNames", tree |-> t, walkErr |-> Nil, done |-> FALSE,
          out |-> NameList(<<>>, Nil), load |-> <<>>] : t \in Trees}
        \cup {[fn |-> "GetImageNames", tree |-> {Entry(BaseDir, TRUE)},
               walkErr |-> Sentinel("fs.ErrPermission", "permission denied"),
               done |-> FALSE, out |-> NameList(<<>>, Nil), load |-> <<>>]}
        \cup {[fn |-> "New", baseDir |-> b, outputPath |-> o, stat |-> st,
               done |-> FALSE, out |-> Opened(NoRepository, Nil)] :
                b \in {"", BaseDir}, o \in {"", "output.txt", "/tmp/output.txt"},
                st \in {"directory", "file", "absent", "denied"}}

\* names, err := repo.GetImageNames()
GetImageNamesCall ==
    /\ call.fn = "GetImageNames"
    /\ ~call.done
    /\ call' = [call EXCEPT !.done = TRUE,
                            !.out = GetImageNames(call.tree, call.walkErr)]
    /\ UNCHANGED <<appVars, clientVars, ctxDone>>

\* repo, err := repository.New(baseDir, outputPath)
NewRepositoryCall ==
    /\ call.fn = "New"
    /\ ~call.done
    /\ call' = [call EXCEPT !.done = TRUE,
                            !.out = New(call.baseDir, call.outputPath, call.stat)]
    /\ UNCHANGED <<appVars, clientVars, ctxDone>>

\* data, err := repo.LoadImageByName(names[i]), for one of the listed names
LoadImageByNameCall ==
    /\ call.fn = "GetImageNames"
    /\ call.done
    /\ call.load = <<>>
    /\ \E i \in 1..Len(call.out.names) :
            call' = [call EXCEPT !.load =
                        <<[index |-> i, out |-> LoadImageByName(call.tree, call.out.names[i])]>>]
    /\ UNCHANGED <<appVars, clientVars, ctxDone>>

NextRepository == GetImageNamesCall \/ NewRepositoryCall \/ LoadImageByNameCall

SpecRepository == InitRepository /\ [][NextRepository]_vars

\* ================================================= isRefusalResponse alone
\* The texts handed to isRefusalResponse: a message, alone, after a first line
\* or after a long one, and followed by nothing, a newline or a long line. The
\* messages are those of TestIsRefusalResponse and variations of them, grouped
\* by what they contain: "refusal" holds sorry, transcribe and can't, cannot or
\* unable; "short" holds only phrases of the short list; "plain" holds none.
RefusalTexts ==
    LET LongLine ==
            "The day before my birthday my sister asked me to choose the lighting scheme for the party in the garden."
        RefusalMessages ==
            [refusal |-> { "I'm sorry, I can't transcribe the text from the image.",
                           "I'm sorry, I can't transcribe the text from this image",
                           "I'm sorry, I can't transcribe text from the image.",
                           "SORRY, WE CANNOT TRANSCRIBE THIS PAGE",
                           "Sorry - Unable to Transcribe",
                           "Transcribe it? So sorry, we can't" },
             short |-> { "I'm sorry", "Unable to read this", "I can't", "I CANNOT",
                         "I'm unable", "We can't help", "They can't assist" },
             plain |-> { "", " ", "E3", "Monday, January 1, 2024",
                         "Sorry to transcribe so late" }]
    IN  UNION {{[class |-> c, text |-> pre \o msg \o post] :
                    msg \in RefusalMessages[c],
                    pre \in {"", "Start Date\n", LongLine \o "\n"},
                    post \in {"", "\n", "\n" \o LongLine}} : c \in DOMAIN RefusalMessages}

InitRefusal ==
    /\ idleRun
    /\ call \in {[fn |-> "isRefusalResponse", class |-> t.class, text |-> t.text,
                  done |-> FALSE, out |-> FALSE] : t \in RefusalTexts}

\* result := c.isRefusalResponse(tt.text)
IsRefusalResponseCall ==
    /\ call.fn = "isRefusalResponse"
    /\ ~call.done
    /\ call' = [call EXCEPT !.done = TRUE, !.out = isRefusalResponse(call.text)]
    /\ UNCHANGED <<appVars, clientVars, ctxDone>>

SpecRefusal == InitRefusal /\ [][IsRefusalResponseCall]_vars

\* ========================================== configModel (interactive config)
\* The bubbletea model that collects the configuration. The program hands
\* Update one key at a time; tea.Quit, returned by Update, reaches the program
\* loop as a message of its own, so keys that are already queued may still be
\* handled before the program stops.
MaxKeys == 4

\* newConfigModel(), wd being what os.Getwd returned ("" when it failed)
newConfigModel(wd) ==
    [step |-> 0,
     config |-> [InputDir |-> "", OutputFile |-> "", APIKey |-> "", Concurrency |-> 0,
                 StartDate |-> ""],
     completed |-> FALSE, cancelled |-> FALSE,
     inputDir |-> wd, outputFile |-> "output.txt", apiKey |-> "", concurrency |-> "10",
     startDate |-> "", err |-> ""]

\* m.handleEnter(): the model and whether the command is tea.Quit.
\* strconv.Atoi of a string of digits is its value, of "" an error (the
\* concurrency field holds digits only: handleInput lets nothing else in).
handleEnter(m) ==
    LET Digits == "0123456789"
        Digit(c) == (CHOOSE k \in 1..10 : SubSeq(Digits, k, k) = c) - 1
        RECURSIVE Value(_)
        Value(s) == IF s = "" THEN 0
                    ELSE 10 * Value(SubSeq(s, 1, Len(s) - 1)) + Digit(SubSeq(s, Len(s), Len(s)))
        AtoiFails(s) == s = ""
        Rejected(text) == [model |-> [m EXCEPT !.err = text], quit |-> FALSE]
        Advanced == [model |-> [m EXCEPT !.err = "", !.step = m.step + 1], quit |-> FALSE]
    IN  CASE m.step = 0 ->
                IF m.inputDir = "" THEN Rejected("Input directory cannot be empty") ELSE Advanced
          [] m.step = 1 ->
                IF m.outputFile = "" THEN Rejected("Output file cannot be empty") ELSE Advanced
          [] m.step = 2 ->
                IF m.apiKey = "" THEN Rejected("API key cannot be empty") ELSE Advanced
          [] m.step = 3 ->
                IF AtoiFails(m.concurrency) \/ Value(m.concurrency) <= 0
                THEN Rejected("Concurrency must be a positive integer")
                ELSE Advanced
          [] m.step = 4 ->
                [model |-> [m EXCEPT !.err = "", !.completed = TRUE,
                                     !.config = [InputDir |-> m.inputDir,
                                                 OutputFile |-> m.outputFile,
                                                 APIKey |-> m.apiKey,
                                                 Concurrency |-> Value(m.concurrency),
                                                 StartDate |-> m.startDate]],
                 quit |-> TRUE]
          [] OTHER -> [model |-> [m EXCEPT !.err = ""], quit |-> FALSE]

\* m.Update(tea.KeyMsg), key being msg.String()
Update(m, key) ==
    LET Chop(s) == IF Len(s) > 0 THEN SubSeq(s, 1, Len(s) - 1) ELSE s
        handleBackspace ==
            CASE m.step = 0 -> [m EXCEPT !.inputDir = Chop(m.inputDir)]
              [] m.step = 1 -> [m EXCEPT !.outputFile = Chop(m.outputFile)]
              [] m.step = 2 -> [m EXCEPT !.apiKey = Chop(m.apiKey)]
              [] m.step = 3 -> [m EXCEPT !.concurrency = Chop(m.concurrency)]
              [] m.step = 4 -> [m EXCEPT !.startDate = Chop(m.startDate)]
              [] OTHER -> m
        handleInput ==
            IF Len(key) # 1 THEN m  \* no key of one character here is a control character
            ELSE CASE m.step = 0 -> [m EXCEPT !.inputDir = m.inputDir \o key]
                   [] m.step = 1 -> [m EXCEPT !.outputFile = m.outputFile \o key]
                   [] m.step = 2 -> [m EXCEPT !.apiKey = m.apiKey \o key]
                   [] m.step = 3 ->
                        IF \E k \in 1..10 : SubSeq("0123456789", k, k) = key
                        THEN [m EXCEPT !.concurrency = m.concurrency \o key]
                        ELSE m
                   [] m.step = 4 -> [m EXCEPT !.startDate = m.startDate \o key]
                   [] OTHER -> m
    IN  CASE key \in {"ctrl+c", "q"} -> [model |-> [m EXCEPT !.cancelled = TRUE], quit |-> TRUE]
          [] key = "enter" -> handleEnter(m)
          [] key = "backspace" -> [model |-> handleBackspace, quit |-> FALSE]
          [] OTHER -> [model |-> handleInput, quit |-> FALSE]

\* The model when the program starts, or as the tests set it up at a later
\* step: the fields of the steps passed are valid, the field of the current
\* step is anything the user can have left in it, the later ones are untouched.
InitConfig ==
    LET WorkingDir == "/w"
        fresh == newConfigModel(WorkingDir)
        AtStep ==
            {newConfigModel(wd) : wd \in {"", WorkingDir}}
            \cup {[fresh EXCEPT !.step = 1, !.outputFile = f] : f \in {"", "output.txt"}}
            \cup {[fresh EXCEPT !.step = 2, !.apiKey = k] : k \in {"", "k"}}
            \cup {[fresh EXCEPT !.step = 3, !.apiKey = "k", !.concurrency = c] :
                    c \in {"", "0", "5", "10"}}
            \cup {[fresh EXCEPT !.step = 4, !.apiKey = "k", !.concurrency = "5"]}
    IN  /\ idleRun
        /\ call \in {[fn |-> "configModel", m |-> m, keys |-> 0, key |-> "", before |-> m,
                      quit |-> FALSE, running |-> TRUE] : m \in AtStep}

\* program loop: model, cmd = model.Update(msg) for the next key
KeyPress ==
    /\ call.fn = "configModel"
    /\ call.running
    /\ call.keys < MaxKeys
    /\ \E key \in {"enter", "backspace", "ctrl+c", "q", "a", "7", "0", "tab"} :
        LET u == Update(call.m, key)
        IN call' = [call EXCEPT !.m = u.model, !.keys = call.keys + 1, !.key = key,
                                !.before = call.m, !.quit = call.quit \/ u.quit]
    /\ UNCHANGED <<appVars, clientVars, ctxDone>>

\* program loop: the quit message is handled, program.Run returns the model
ProgramQuit ==
    /\ call.fn = "configModel"
    /\ call.running
    /\ call.quit
    /\ call' = [call EXCEPT !.running = FALSE]
    /\ UNCHANGED <<appVars, clientVars, ctxDone>>

NextConfig == KeyPress \/ ProgramQuit

SpecConfig == InitConfig /\ [][NextConfig]_vars

\* ======================================================= spinner (command)
\* The spinner of the command, called from several goroutines. Each call is a
\* sequence of steps: s.mu.Lock(), then the body up to the deferred Unlock;
\* Start first runs a whole s.Stop(), lock and body, and only then locks again.
\* A started huh spinner runs in a goroutine of its own until the cancel
\* function of its context is called. call.s holds the fields of the struct,
\* the title the running spinner shows and the spinners that are running;
\* call.before is call.s as the last body found it.
MaxGoroutines == 2
MaxCalls == 3

InitSpinner ==
    LET zero == [cancelFunc |-> 0, spinner |-> 0, title |-> "", shown |-> "", running |-> {}]
    IN  /\ idleRun
        /\ call = [fn |-> "spinner", s |-> zero, before |-> zero, mu |-> 0, created |-> 0,
                   calls |-> 0, pc |-> [g \in 1..MaxGoroutines |-> "idle"], last |-> ""]

\* c.spinner.Start(title) / Stop() / UpdateProgress(completed, total):
\* goroutine g enters the method and reaches its first s.mu.Lock()
SpinnerCall ==
    /\ call.fn = "spinner"
    /\ call.calls < MaxCalls
    /\ \E g \in 1..MaxGoroutines : \E method \in {"Start", "Stop", "UpdateProgress"} :
        /\ call.pc[g] = "idle"
        /\ call' = [call EXCEPT !.calls = call.calls + 1,
                                !.pc[g] = IF method = "Start" THEN "Start.Stop.lock"
                                          ELSE method \o ".lock"]
    /\ UNCHANGED <<appVars, clientVars, ctxDone>>

\* s.mu.Lock()
SpinnerLock ==
    /\ call.fn = "spinner"
    /\ call.mu = 0
    /\ \E g \in 1..MaxGoroutines :
        /\ call.pc[g] \in {"Start.Stop.lock", "Start.lock", "Stop.lock", "UpdateProgress.lock"}
        /\ call' = [call EXCEPT !.mu = g,
                                !.pc[g] = CASE call.pc[g] = "Start.Stop.lock" -> "Start.Stop.body"
                                            [] call.pc[g] = "Start.lock" -> "Start.body"
                                            [] call.pc[g] = "Stop.lock" -> "Stop.body"
                                            [] OTHER -> "UpdateProgress.body"]
    /\ UNCHANGED <<appVars, clientVars, ctxDone>>

\* Stop, from the nil test to the deferred Unlock; in Start it is followed by
\* Start's own Lock
SpinnerStop ==
    /\ call.fn = "spinner"
    /\ \E g \in 1..MaxGoroutines :
        /\ call.pc[g] \in {"Start.Stop.body", "Stop.body"}
        /\ call.mu = g
        /\ call' = [call EXCEPT !.mu = 0, !.before = call.s,
                        !.pc[g] = IF call.pc[g] = "Stop.body" THEN "idle" ELSE "Start.lock",
                        !.last = IF call.pc[g] = "Stop.body" THEN "Stop" ELSE "Start.Stop",
                        !.s = IF call.s.cancelFunc = 0 THEN call.s
                              ELSE [call.s EXCEPT !.running = @ \ {call.s.cancelFunc},
                                                  !.cancelFunc = 0, !.spinner = 0, !.title = ""]]
    /\ UNCHANGED <<appVars, clientVars, ctxDone>>

\* Start, from s.title = title to `go s.spinner.Run()` and the deferred Unlock
SpinnerStart ==
    /\ call.fn = "spinner"
    /\ \E g \in 1..MaxGoroutines :
        /\ call.pc[g] = "Start.body"
        /\ call.mu = g
        /\ LET id == call.created + 1
           IN call' = [call EXCEPT !.mu = 0, !.before = call.s, !.pc[g] = "idle",
                                   !.last = "Start", !.created = id,
                                   !.s = [cancelFunc |-> id, spinner |-> id,
                                          title |-> "Processing images...",
                                          shown |-> "Processing images...",
                                          running |-> call.s.running \cup {id}]]
    /\ UNCHANGED <<appVars, clientVars, ctxDone>>

\* UpdateProgress, from the nil test to the deferred Unlock
SpinnerUpdateProgress ==
    /\ call.fn = "spinner"
    /\ \E g \in 1..MaxGoroutines :
        /\ call.pc[g] = "UpdateProgress.body"
        /\ call.mu = g
        /\ call' = [call EXCEPT !.mu = 0, !.before = call.s, !.pc[g] = "idle",
                        !.last = "UpdateProgress",
                        !.s = IF call.s.spinner = 0 THEN call.s
                              ELSE [call.s EXCEPT !.shown = call.s.title \o " [1 / 2]"]]
    /\ UNCHANGED <<appVars, clientVars, ctxDone>>

NextSpinner ==
    \/ SpinnerCall
    \/ SpinnerLock
    \/ SpinnerStop
    \/ SpinnerStart
    \/ SpinnerUpdateProgress

SpecSpinner == InitSpinner /\ [][NextSpinner]_vars

\* ================================================================== claims
InParallel == mainPc \notin {"validate", "start"} /\ imageNames # <<>>
ReturnedSummary == ret.done /\ ret.err = Nil
AllSent == sendIdx > Len(imageNames)
Listed == Range(imageNames)
EntriesFor(name) == {j \in 1..Len(allResults) : allResults[j].ImageName = name}
ListedAs(name) == {i \in 1..Len(imageNames) : imageNames[i] = name}
\* one entry, and one worker, for each position of the listing
OnePerListed ==
    /\ Len(allResults) = Len(imageNames)
    /\ \A n \in Listed :
        /\ Cardinality(EntriesFor(n)) = Cardinality(ListedAs(n))
        /\ CopiesIn(n, begun) = Cardinality(ListedAs(n))
Ascending(names) ==
    \A i \in 1..Len(names) : \A j \in 1..Len(names) : i < j => ~NameLess(names[j], names[i])

\* C1: while processImagesParallel runs, the number of images inside
\* processImage never exceeds the configured Concurrency (>= 1), and a
\* Concurrency <= 0 runs with exactly 10 workers.
C1_Limit == IF cfgConcurrency >= 1 THEN cfgConcurrency ELSE 10
C1_ConcurrencyBound ==
    InParallel =>
        /\ NumProcessing <= C1_Limit
        /\ idle + BagCardinality(busy) + exited = C1_Limit
\* the bound is binding: the single worker is busy while a job waits
C1_Witness == cfgConcurrency = 1 /\ NumProcessing = 1 /\ jobs # <<>>

\* C2 (as stated): whenever ProcessImages returns a summary, the results hold
\* exactly one entry per listed image and TotalImagesProcessed is the number of
\* listed images, cancelled or not.
C2_OneResultPerImage_Original ==
    ReturnedSummary =>
        /\ OnePerListed
        /\ ret.summary.TotalImagesProcessed = Len(imageNames)

\* C2 (amended): whenever ProcessImages returns a summary, no listed image has
\* more than one entry or more than one worker, every entry is a listed image,
\* and TotalImagesProcessed is the number of entries; the entries are exactly
\* one per listed image whenever the sender sent every name, which it does in
\* every run that is not cancelled.
C2_OneResultPerImage ==
    ReturnedSummary =>
        /\ \A j \in 1..Len(allResults) : allResults[j].ImageName \in Listed
        /\ \A n \in Listed :
            /\ Cardinality(EntriesFor(n)) <= Cardinality(ListedAs(n))
            /\ CopiesIn(n, begun) = Cardinality(EntriesFor(n))
        /\ ret.summary.TotalImagesProcessed = Len(allResults)
        /\ (~ctxDone => AllSent)
        /\ AllSent =>
            /\ OnePerListed
            /\ ret.summary.TotalImagesProcessed = Len(imageNames)
\* a run cancelled after the sender had sent both names still returns both
C2_Witness ==
    /\ ReturnedSummary /\ ctxDone /\ AllSent
    /\ Len(imageNames) = 2 /\ imageNames[1] # imageNames[2]
    /\ ret.summary.TotalImagesProcessed = 2

\* C3: the transcript handed to SaveOutput lists the entries in ascending
\* name order and is the formatOutput of the per-image results taken in listing
\* order, whatever the order in which the workers delivered them.
C3_IsFileName(line) == line \in FileNames
C3_NameLines == SelectSeq(SplitLines(saved[1].content), C3_IsFileName)
\* the arrangements of the collected results that ascend by name
C3_Arrangements ==
    {[i \in 1..Len(allResults) |-> allResults[p[i]]] : p \in
        {q \in Perms(Len(allResults)) :
            Ascending([i \in 1..Len(allResults) |-> allResults[q[i]].ImageName])}}
\* each image name has one outcome
C3_FixedOutcomes ==
    \A i \in 1..Len(allResults) : \A j \in 1..Len(allResults) :
        allResults[i].ImageName = allResults[j].ImageName => allResults[i] = allResults[j]
C3_TranscriptOrder ==
    saved # <<>> =>
        /\ \E q \in C3_Arrangements : saved[1].content = formatOutput(q, cfgStartDate)
        /\ C3_FixedOutcomes =>
              \A q \in C3_Arrangements : saved[1].content = formatOutput(q, cfgStartDate)
        /\ Ascending(C3_NameLines)
        /\ Len(C3_NameLines) = Len(arrival)
\* the second image was delivered first, and the second entry carries the
\* first entry's date forward
C3_Witness ==
    /\ saved # <<>> /\ Len(arrival) = 2 /\ ~Ascending(arrival)
    /\ allResults[1].Date # "" /\ allResults[2].Date = "" /\ allResults[2].Text = TextPlain

\* C4: a load or recognition failure of one image leaves the run intact: every
\* failed image has its own entry whose text is the error message, every listed
\* image that was sent has an entry, SaveOutput is called, and the run returns
\* a summary without error unless SaveOutput itself fails.
C4_ErrorText(f) ==
    (IF f.stage = "load" THEN "Error loading image: " ELSE "Error processing image: ") \o f.msg
C4_FailuresAreLocal ==
    (mainPc = "returned" /\ imageNames # <<>>) =>
        /\ Len(saved) = 1
        /\ (saved[1].err = Nil => ret.err = Nil /\ ret.summary # NoSummary)
        /\ \A f \in failures :
            /\ \E j \in EntriesFor(f.image) : allResults[j].Text = C4_ErrorText(f)
            /\ C4_ErrorText(f) \in Range(SplitLines(saved[1].content))
        /\ (~ctxDone => AllSent)
        /\ AllSent => \A n \in Listed :
                          Cardinality(EntriesFor(n)) = Cardinality(ListedAs(n))
\* the first image failed to load and the second was transcribed
C4_Witness ==
    /\ ReturnedSummary /\ Len(imageNames) = 2 /\ Len(allResults) = 2
    /\ imageNames[1] # imageNames[2]
    /\ \E f \in failures : f.image = imageNames[1] /\ f.stage = "load"
    /\ allResults[2].Text = TextDated

\* C9 (as stated): once the context is cancelled no worker enters processImage
\* and no OCRImage call makes another request.
C9_NoNewWorkAfterCancel ==
    [][ctxDone => (begun' = begun /\ Len(sent') = Len(sent))]_vars

\* C10: processImagesParallel terminates, cancelled or not: no send on jobs or
\* results ever blocks, results is closed once and only after every worker has
\* exited, and when ProcessImages returns no goroutine is left.
C10_Safe ==
    /\ closes <= 1
    /\ (senderPc = "send" /\ sendIdx <= Len(imageNames) => Len(jobs) < ChanCap)
    /\ (\A t \in InFlight : t.pc = "send" => Len(results) < ChanCap)
    /\ (resultsClosed => exited = concurrency /\ busy = EmptyBag /\ idle = 0)
    /\ (mainPc = "returned" /\ imageNames # <<>> =>
            /\ senderPc = "done" /\ closerPc = "done" /\ closes = 1
            /\ idle = 0 /\ busy = EmptyBag /\ exited = concurrency
            /\ jobs = <<>> /\ results = <<>>)
C10_Terminates == (<>(mainPc = "returned")) /\ []C10_Safe
\* a cancelled run that returned with fewer results than listed images
C10_Witness ==
    /\ mainPc = "returned" /\ ctxDone /\ closes = 1
    /\ Len(allResults) < Len(imageNames)

\* ---------------------------------------------------- claims on OCRImage
CallDone == cPc = "done"
Failed(i) == sent[i].err # Nil
Unauthorized(i) == sent[i].err.kind = "APIError" /\ sent[i].err.status = 401
Retryable(i) == Failed(i) /\ ~Unauthorized(i)
Refused(i) == sent[i].resp.kind = "ok" /\ isRefusalResponse(sent[i].resp.content)

C6_UnauthorizedIsTerminal ==
    \A i \in 1..Len(sent) :
        Unauthorized(i) =>
            /\ i = Len(sent)
            /\ CallDone
            /\ cRet.err = sent[i].err
            /\ cRet.attempts = i
            /\ cRet.text = ""
C6_Witness ==
    /\ CallDone /\ Len(sent) = 1 /\ Unauthorized(1) /\ cRet.attempts = 1

\* C7: the cost OCRImage returns is the sum of the costs its attempts returned,
\* for every outcome; two transient failures and a success give 3 attempts and
\* the sum of the three costs.
C7_SentCosts == [i \in 1..Len(sent) |-> sent[i].cost]
C7_CostIsSum ==
    /\ CallDone => cRet.cost = SumSeq(C7_SentCosts)
    /\ (CallDone /\ Len(sent) = 3 /\ Retryable(1) /\ Retryable(2) /\ ~Failed(3)) =>
            /\ cRet.attempts = 3
            /\ cRet.err = Nil
            /\ cRet.cost = sent[1].cost + sent[2].cost + sent[3].cost
            /\ cRet.cost = TokenCost(sent[3].resp.prompt, sent[3].resp.completion)
C7_Witness ==
    /\ CallDone /\ Len(sent) = 3 /\ Retryable(1) /\ Retryable(2) /\ ~Failed(3)
    /\ cRet.attempts = 3 /\ cRet.cost > 0

\* C8: a response the refusal predicate classifies as a refusal is never what
\* OCRImage returns as a transcription; it is a failed attempt that is retried
\* up to the cap of 5, and five refusals end in the max-retries error.
C8_RefusalIsRetried ==
    /\ \A i \in 1..Len(sent) : Refused(i) =>
            /\ Failed(i)
            /\ sent[i].err.is = "ErrRefusalResponse"
            /\ (i < 5 => (Len(sent) > i \/ cPc \in {"backoff", "wait", "call"}
                            \/ (CallDone /\ cRet.err.is = "context.Canceled")))
    /\ (CallDone /\ cRet.err = Nil) =>
            /\ ~isRefusalResponse(cRet.text)
            /\ cRet.text = sent[Len(sent)].resp.content
    /\ (CallDone /\ Len(sent) = 5 /\ \A i \in 1..5 : Refused(i)) =>
            /\ cRet.err.is = "ErrMaxRetriesExceeded"
            /\ cRet.text = ""
C8_Witness ==
    /\ CallDone /\ Len(sent) = 5 /\ \A i \in 1..5 : Refused(i)
    /\ cRet.err.is = "ErrMaxRetriesExceeded"

\* C11: when the context is cancelled while OCRImage is parked in the wait
\* between two attempts, the call's next step is its return, with the
\* cancellation error, no text and the cost of the attempts made so far, and no
\* request follows.
C11_SentCost == SumSeq([i \in 1..Len(sent) |-> sent[i].cost])
C11_CancelledInWait ==
    [][(cPc = "wait" /\ ctxDone) =>
            /\ sent' = sent
            /\ cPc' \in {"wait", "done"}
            /\ cPc' = "done" =>
                    /\ cRet'.err = ErrCanceled
                    /\ cRet'.text = ""
                    /\ cRet'.cost = C11_SentCost
                    /\ cRet'.attempts = attempts]_vars
\* cancelled while parked after the second failed attempt
C11_Witness == cPc = "wait" /\ ctxDone /\ Len(sent) = 2 /\ \A i \in 1..2 : Failed(i)

\* C12 (as stated): no wait precedes the first attempt; the k-th wait is twice
\* the one before it unless that exceeds the ceiling of 50ms, and none exceeds 50ms.
C12_BackoffGrows ==
    /\ Len(waits) <= Len(sent)
    /\ \A k \in 1..Len(waits) : waits[k] <= 50
    /\ \A k \in 2..Len(waits) :
            waits[k] = (IF 2 * waits[k - 1] <= 50 THEN 2 * waits[k - 1] ELSE 50)

C14_NoImages ==
    \A k \in 1..Len(listed) :
        (listed[k].err # Nil \/ listed[k].names = <<>>) =>
            /\ ret.done
            /\ listed[k].err = Nil => ret.err = ErrNoImagesFound
            /\ listed[k].err # Nil => ret.err # Nil
            /\ ret.summary = NoSummary
            /\ begun = EmptyBag /\ busy = EmptyBag /\ failures = {}
            /\ allResults = <<>> /\ saved = <<>>
C14_Witness ==
    /\ listed = <<[names |-> <<>>, err |-> Nil]>>
    /\ ret.done /\ ret.err = ErrNoImagesFound /\ saved = <<>>

\* C15: when SaveOutput fails, ProcessImages returns an error that wraps
\* ErrProcessingFailed and carries the save error's text, and no summary, also
\* when every image was recognized.
C15_SaveFailure ==
    \A k \in 1..Len(saved) :
        saved[k].err # Nil =>
            /\ ret.done
            /\ ret.err.is = "ErrProcessingFailed"
            /\ ret.err.msg = "failed to process images: " \o saved[k].err.msg
            /\ ret.summary = NoSummary
\* both images were recognized and the save failed
C15_Witness ==
    /\ saved # <<>> /\ saved[1].err # Nil
    /\ Len(imageNames) = 2 /\ Len(allResults) = 2 /\ failures = {}
    /\ ret.err.is = "ErrProcessingFailed"

\* C16: ProcessImages returns a summary and no error exactly when SaveOutput
\* was called once and succeeded; a run that returns an error returns no
\* summary; and a run that fails for another reason than the save never
\* called SaveOutput.
C16_SummaryIffSaved ==
    /\ Len(saved) <= 1
    /\ ~ret.done => saved = <<>>
    /\ ret.done =>
        /\ (ret.summary # NoSummary /\ ret.err = Nil)
                <=> (Len(saved) = 1 /\ saved[1].err = Nil)
        /\ ret.err # Nil => ret.summary = NoSummary
        /\ ret.err = Nil => ret.summary # NoSummary
        /\ (ret.err # Nil /\ ret.err.is # "ErrProcessingFailed") => saved = <<>>
        /\ (ret.err # Nil /\ ret.err.is = "ErrProcessingFailed") =>
                (Len(saved) = 1 /\ saved[1].err # Nil)
\* a summary, with one image's error text in the transcript
C16_Witness ==
    /\ ret.done /\ ret.err = Nil /\ ret.summary.TotalImagesProcessed = 2
    /\ Len(saved) = 1 /\ saved[1].err = Nil /\ failures # {}

\* C17: in the summary, TotalCost is the sum of the results' Cost, TotalOCRAttempts
\* the sum of their OCRAttempts, CostPerImage and OCRAttemptsPerImage those sums
\* divided by TotalImagesProcessed, and nothing is divided when no image was
\* processed.
RECURSIVE C17_CostUpTo(_)
C17_CostUpTo(k) == IF k = 0 THEN 0 ELSE C17_CostUpTo(k - 1) + allResults[k].Cost
RECURSIVE C17_AttemptsUpTo(_)
C17_AttemptsUpTo(k) ==
    IF k = 0 THEN 0 ELSE C17_AttemptsUpTo(k - 1) + allResults[k].OCRAttempts
C17_WitnessNone == ReturnedSummary /\ Len(allResults) = 0

\* ------------------------------------------------- claims on formatOutput
Formatted == call.fn = "formatOutput" /\ call.done
\* the date an entry is due: its own, else the nearest earlier one, else the
\* start date
EarlierDated(i) == {j \in 1..(i - 1) : call.results[j].Date # ""}
LastOf(S) == CHOOSE j \in S : \A k \in S : k <= j
DueDate(i) ==
    IF call.results[i].Date # "" THEN call.results[i].Date
    ELSE IF EarlierDated(i) # {} THEN call.results[LastOf(EarlierDated(i))].Date
    ELSE call.startDate
\* the lines an entry is due, and the line before its first
DueLines(i) ==
    <<"---", call.results[i].ImageName>>
        \o (IF DueDate(i) # "" THEN <<DueDate(i)>> ELSE <<>>)
        \o SplitLines(call.results[i].Text)
RECURSIVE LinesBefore(_)
LinesBefore(i) == IF i = 1 THEN 0 ELSE LinesBefore(i - 1) + Len(DueLines(i - 1))
OutLines == SplitLines(call.out)

\* C18: the date written for entry i is the entry's own date when it has one,
\* else the latest own date of an earlier entry, else the start date; an own
\* date is never replaced.
C18_DateCarriedForward ==
    Formatted =>
        \A i \in 1..Len(call.results) :
            LET at == LinesBefore(i)
                own == call.results[i].Date
            IN /\ Len(OutLines) >= at + 3
               /\ OutLines[at + 1] = "---"
               /\ OutLines[at + 2] = call.results[i].ImageName
               /\ DueDate(i) # "" => OutLines[at + 3] = DueDate(i)
               /\ own # "" => OutLines[at + 3] = own
               /\ DueDate(i) = "" =>
                        OutLines[at + 3] = SplitLines(call.results[i].Text)[1]
\* the first entry is dated, the second carries that date over the start
\* date, the third has its own
C18_Witness ==
    /\ Formatted /\ Len(call.results) = 3 /\ call.startDate # ""
    /\ call.results[1].Date = "Monday, January 1, 2024"
    /\ call.results[2].Date = ""
    /\ call.results[3].Date = "Tuesday, January 2, 2024"
    /\ OutLines[LinesBefore(2) + 3] = "Monday, January 1, 2024"

\* C19: the text is, for each result in order, the line `---`, the name, the
\* date line when the date due is not empty, and the text with a newline; it
\* has as many `---` lines as there are results and is empty for no result.
C19_IsSeparator(line) == line = "---"
RECURSIVE C19_DueFrom(_)
C19_DueFrom(i) ==
    IF i > Len(call.results) THEN <<>> ELSE DueLines(i) \o C19_DueFrom(i + 1)
C19_EntryLayout ==
    Formatted =>
        /\ call.results = <<>> => call.out = ""
        /\ call.results # <<>> =>
                /\ OutLines = C19_DueFrom(1) \o <<"">>
                /\ SubSeq(call.out, Len(call.out), Len(call.out)) = "\n"
        /\ Len(SelectSeq(OutLines, C19_IsSeparator)) = Len(call.results)
\* one entry without any date, one with the start date
C19_Witness ==
    /\ Formatted /\ Len(call.results) = 2
    /\ call.startDate = "" /\ call.results[1].Date = "" /\ call.results[2].Date # ""
    /\ Len(OutLines) = Len(DueLines(1)) + Len(DueLines(2)) + 1

\* ------------------------------------------------- claims on extractDate
Extracted == call.fn = "extractDate" /\ call.done
TextLine(i) == TrimSpace(SplitLines(call.text)[i])
Matches(i) == \E p \in 1..3 : PatternMatch(p, TextLine(i)) # ""
FirstPattern(i) ==
    CHOOSE p \in 1..3 : /\ PatternMatch(p, TextLine(i)) # ""
                        /\ \A q \in 1..(p - 1) : PatternMatch(q, TextLine(i)) = ""
NonBlank == {i \in 1..Len(SplitLines(call.text)) : TextLine(i) # ""}
\* the result due when the lines of S are the ones scanned
DueMatch(S) ==
    LET M == {i \in S : Matches(i)}
    IN IF M = {} THEN ""
       ELSE LET i == CHOOSE i \in M : \A k \in M : i <= k
            IN PatternMatch(FirstPattern(i), TextLine(i))

\* C20 (as stated): the result is the first pattern's match on the first
\* matching line among the first 5 non-blank lines, and empty when none of
\* those matches.
C20_FirstFiveNonBlank ==
    Extracted =>
        call.out = DueMatch({i \in NonBlank : Cardinality({j \in NonBlank : j <= i}) <= 5})

\* C20 (amended): the result is the first pattern's match on the first
\* matching line among the first 5 lines of the text, blank ones counted, and
\* empty when none of those matches.
C20_FirstFiveLines ==
    Extracted =>
        call.out = DueMatch({i \in 1..Len(SplitLines(call.text)) : i <= 5})
\* a blank first line, and the only date on the sixth line
C20_Witness ==
    /\ Extracted /\ Len(SplitLines(call.text)) = 6
    /\ TextLine(1) = "" /\ Matches(6) /\ \A i \in 1..5 : ~Matches(i)
    /\ call.out = ""

\* ---------------------------------------------------------------- resizer
ResizeDone == call.fn = "ResizeImage" /\ call.done
Decodable == call.imageData.format \in Range(Codecs)
Longest == Max(call.imageData.width, call.imageData.height)
TooLarge == ResizeDone /\ Decodable /\ call.maxDimension > 0 /\ Longest > call.maxDimension
\* the picture a test reads back from the returned bytes
ResizedImage == decodeImage(call.out.data)
ResizedTo(width, height) ==
    /\ call.out.err = Nil
    /\ ResizedImage.err = Nil
    /\ ResizedImage.width = width
    /\ ResizedImage.height = height
ResizeOf(width, height, maxDimension) ==
    /\ ResizeDone
    /\ Decodable
    /\ call.imageData.width = width
    /\ call.imageData.height = height
    /\ call.maxDimension = maxDimension

\* C21: for every decodable image whose longest side is at most maxDimension
\* (equal included), ResizeImage returns the input bytes themselves and no error.
C21_SmallUnchanged ==
    (ResizeDone /\ Decodable /\ Longest <= call.maxDimension) =>
        /\ call.out.data = call.imageData
        /\ call.out.err = Nil
C21_Witness ==
    /\ ResizeOf(1500, 1500, 1500)
    /\ call.out.data = call.imageData

\* C22 as stated: a 4032x2707 image resized with maxDimension 1500 is
\* exactly 1500x1006.
C22_Gives1006 == ResizeOf(4032, 2707, 1500) => ResizedTo(1500, 1006)
\* C22: a 4032x2707 image resized with maxDimension 1500 is exactly
\* 1500x1007, the quotient 2707*1500/4032 = 1007.07 rounded down.
C22_Gives1007 == ResizeOf(4032, 2707, 1500) => ResizedTo(1500, 1007)
C22_Witness == ResizeOf(4032, 2707, 1500) /\ call.out.encoded /\ call.out.err = Nil

\* C23: for every image whose longest side exceeds maxDimension, the resized
\* image's longest side is maxDimension exactly, on the axis of the
\* original's longest side (a square becomes maxDimension x maxDimension),
\* and no side grows; 1000x2000 gives 750x1500 and 3000x1500 gives 1500x750
\* with maxDimension 1500.
C23_LongestSideIsMax ==
    (TooLarge /\ call.out.err = Nil) =>
        /\ ResizedImage.err = Nil
        /\ Max(ResizedImage.width, ResizedImage.height) = call.maxDimension
        /\ call.imageData.width >= call.imageData.height =>
                ResizedImage.width = call.maxDimension
        /\ call.imageData.height >= call.imageData.width =>
                ResizedImage.height = call.maxDimension
        /\ ResizedImage.width <= call.imageData.width
        /\ ResizedImage.height <= call.imageData.height
        /\ ResizeOf(1000, 2000, 1500) => ResizedTo(750, 1500)
        /\ ResizeOf(3000, 1500, 1500) => ResizedTo(1500, 750)
C23_Witness == ResizeOf(1000, 2000, 1500) /\ ResizedTo(750, 1500)

\* The side of the original that is not the longest one, and the same side
\* of the resized image.
OtherSide == IF call.imageData.width > call.imageData.height
             THEN call.imageData.height ELSE call.imageData.width
ResizedOtherSide == IF call.imageData.width > call.imageData.height
                    THEN ResizedImage.height ELSE ResizedImage.width
\* n is the integer nearest to a / b (a half rounds up)
Nearest(n, a, b) == 2 * b * n <= 2 * a + b /\ 2 * a + b < 2 * b * (n + 1)
\* n is a / b rounded down
Floor(n, a, b) == b * n <= a /\ a < b * (n + 1)

\* C24 as stated: for every image whose longest side exceeds maxDimension,
\* the shorter axis of the resized image is the exact quotient
\* other * maxDimension / longest rounded to the nearest integer.
C24_RoundedToNearest ==
    (TooLarge /\ call.out.err = Nil) =>
        Nearest(ResizedOtherSide, OtherSide * call.maxDimension, Longest)
\* C24: for every image whose longest side exceeds maxDimension, the shorter
\* axis of the resized image is the exact quotient
\* other * maxDimension / longest rounded down to an integer.
C24_RoundedDown ==
    (TooLarge /\ call.out.err = Nil) =>
        Floor(ResizedOtherSide, OtherSide * call.maxDimension, Longest)
C24_Witness ==
    /\ TooLarge
    /\ call.out.err = Nil
    /\ 2 * ((OtherSide * call.maxDimension) % Longest) >= Longest
    /\ ~Nearest(ResizedOtherSide, OtherSide * call.maxDimension, Longest)

\* C25: ResizeImage returns an error and nil bytes when maxDimension is zero
\* or negative ("maxDimension must be positive", whatever the data) and when
\* no codec decodes the data (a decode failure); neither case encodes an image.
C25_Rejected ==
    /\ (ResizeDone /\ call.maxDimension <= 0) =>
            /\ call.out.err.msg = "maxDimension must be positive"
            /\ call.out.data = NilBytes
            /\ ~call.out.encoded
    /\ (ResizeDone /\ call.maxDimension > 0 /\ ~Decodable) =>
            /\ call.out.err # Nil
            /\ Contains(call.out.err.msg, "failed to decode image")
            /\ call.out.data = NilBytes
            /\ ~call.out.encoded
C25_Witness ==
    /\ ResizeOf(4032, 2707, 0)
    /\ call.out.err # Nil
C25_WitnessDecode ==
    /\ ResizeDone
    /\ call.imageData = NotAnImage
    /\ call.maxDimension = 1500
    /\ call.out.err # Nil

\* C26: when ResizeImage re-encodes, the output has the format the input was
\* detected as (JPEG, PNG and GIF stay what they were), except WebP input,
\* which is written as JPEG.
C26_SameFormat ==
    (ResizeDone /\ call.out.encoded /\ call.out.err = Nil) =>
        /\ ResizedImage.err = Nil
        /\ ResizedImage.format =
                IF call.imageData.format = "webp" THEN "jpeg" ELSE call.imageData.format
C26_Witness ==
    /\ ResizeOf(2000, 2000, 1500)
    /\ call.imageData.format = "png"
    /\ call.out.encoded
    /\ ResizedImage.format = "png"

\* --------------------------------------------------------- ValidateAPIKey
ValidateDone == call.fn = "ValidateAPIKey" /\ call.done
Answered(status) == call.reply.kind = "response" /\ call.reply.status = status
IsInvalidKey(err) == err.is = "ErrInvalidAPIKey"

\* C27: ValidateAPIKey makes one request and never retries; status 200 gives
\* nil, a 401 response gives ErrInvalidAPIKey, any other non-success status
\* gives the APIError of that status and of the response body, and the
\* invalid-key error is returned for a 401 response and for nothing else.
C27_OutcomeMapping ==
    ValidateDone =>
        /\ call.out.requests = 1
        /\ Answered(200) => call.out.err = Nil
        /\ Answered(401) => call.out.err = ErrInvalidAPIKey
        /\ (call.reply.kind = "response" /\ call.reply.status >= 300
                /\ call.reply.status # 401) =>
                call.out.err = APIError(call.reply.status, call.reply.body)
        /\ IsInvalidKey(call.out.err) => Answered(401)

\* ------------------------------------------------------------- repository
ListingDone == call.fn = "GetImageNames" /\ call.done /\ call.out.err = Nil
OpenDone == call.fn = "New" /\ call.done
\* the files of the directory itself that are named like an image
HasImageExtension(name) ==
    \E ext \in imageExts :
        /\ Len(name) >= Len(ext)
        /\ ToLower(SubSeq(name, Len(name) - Len(ext) + 1, Len(name))) = ext
DirectoryImages ==
    {Base(d.path) : d \in {d \in call.tree :
        /\ ~d.isDir
        /\ d.path = Join(BaseDir, Base(d.path))
        /\ HasImageExtension(Base(d.path))}}
StrictlyAscending(names) ==
    \A i \in 1..(Len(names) - 1) : StringLess(names[i], names[i + 1])

\* C28: GetImageNames returns exactly the files of the directory whose
\* extension, case ignored, is an image extension, in ascending order, and
\* the empty list when the directory has none; New on a path that is absent
\* or not a directory returns no repository and an error wrapping
\* ErrDirectoryNotFound.
C28_ListsDirectoryImages ==
    /\ ListingDone =>
        /\ Range(call.out.names) = DirectoryImages
        /\ Len(call.out.names) = Cardinality(DirectoryImages)
        /\ StrictlyAscending(call.out.names)
    /\ (OpenDone /\ call.stat \in {"absent", "file"}) =>
        /\ call.out.repo = NoRepository
        /\ call.out.err.is = "ErrDirectoryNotFound"
\* the part of C28 that holds: names sorted, only image names, all images of
\* the directory among them, and New failing as stated
C28_SortedImageNames ==
    /\ ListingDone =>
        /\ DirectoryImages \subseteq Range(call.out.names)
        /\ \A i \in 1..Len(call.out.names) : HasImageExtension(call.out.names[i])
        /\ \A i \in 1..(Len(call.out.names) - 1) :
                ~StringLess(call.out.names[i + 1], call.out.names[i])
    /\ (OpenDone /\ call.stat \in {"absent", "file"}) =>
        /\ call.out.repo = NoRepository
        /\ call.out.err.is = "ErrDirectoryNotFound"

\* --------------------------------------------------------------- progress
\* images whose result a worker has handed over
Finished == Len(arrival) + Len(results)
AllWorkersDone == concurrency > 0 /\ exited = concurrency
InOrder(i, j) == delivered[i].completed <= delivered[j].completed

C29_OneCallPerImage ==
    /\ Len(delivered) <= Finished
    /\ AllWorkersDone => Len(delivered) = Finished
    /\ \A i \in 1..Len(delivered) :
        /\ delivered[i].total = Len(imageNames)
        /\ delivered[i].completed \in 1..Finished
        /\ delivered[i].completed <= delivered[i].total
    /\ \A i \in 1..Len(delivered) : \A j \in 1..Len(delivered) :
            i # j => delivered[i].completed # delivered[j].completed
C29_OutOfOrder ==
    /\ Len(delivered) = 2
    /\ delivered[1].completed = 2
    /\ delivered[2].completed = 1

\* C30: sorting, formatting, SaveOutput and the totals start only after every
\* worker has returned and results is closed: when the collected results are
\* read, no worker is inside processImage or sending a result.
C30_AggregateAfterJoin ==
    (mainPc = "returned" /\ saved # <<>>) =>
        /\ resultsClosed
        /\ results = <<>>
        /\ exited = concurrency
        /\ idle = 0
        /\ busy = EmptyBag
        /\ Len(allResults) = Finished
C30_Witness ==
    /\ mainPc = "returned"
    /\ saved # <<>>
    /\ concurrency = 2
    /\ exited = 2
    /\ Len(allResults) = 2

\* ------------------------------------------------ claims on cost and attempts
\* C31 (as stated): the cost recorded for an image is the cost its OCRImage
\* call returned, also when the call returned an error, so TotalCost is the sum
\* of the costs returned by all OCRImage calls of the run.
C31_Call(result) == {o \in OCROutcomes : o.attempts = result.OCRAttempts}
C31_ReturnedCosts ==
    SumSeq([i \in 1..Len(allResults) |->
                IF C31_Call(allResults[i]) = {} THEN 0
                ELSE (CHOOSE o \in C31_Call(allResults[i]) : TRUE).cost])
C32_AttemptsAreRequests ==
    cPc = "done" =>
        /\ cRet.attempts = Len(sent)
        /\ cRet.attempts \in 1..MaxRetries

\* C33 (as stated): an attempt costs TokenCost of the usage the service
\* reported whenever it answered with a response, a response classified as a
\* refusal included; only an attempt without usage data costs nothing.
C33_HasUsage(resp) == resp.kind \in {"ok", "noChoices"}
C33_CostFromUsage ==
    \A i \in 1..Len(sent) :
        sent[i].cost = (IF C33_HasUsage(sent[i].resp)
                        THEN TokenCost(sent[i].resp.prompt, sent[i].resp.completion)
                        ELSE 0)

\* C34: when OCRImage returns an error its text is empty and its cost is not
\* negative; when it returns no error its text is the content of the last
\* attempt's response, and that attempt is the only one of the call that
\* succeeded.
C34_ErrorOrText ==
    CallDone =>
        /\ cRet.err # Nil => (cRet.text = "" /\ cRet.cost >= 0)
        /\ cRet.err = Nil =>
                /\ sent # <<>>
                /\ cRet.text = sent[Len(sent)].resp.content
                /\ \A i \in 1..Len(sent) : Failed(i) <=> i < Len(sent)
\* a refusal with an error and no text, and a success after two failures
C34_Witness ==
    /\ CallDone /\ cRet.err # Nil /\ cRet.text = "" /\ Len(sent) = 5 /\ Refused(5)
C34_WitnessSuccess ==
    /\ CallDone /\ cRet.err = Nil /\ Len(sent) = 3 /\ cRet.text = TextPlain

\* C35 (as stated): for every image with positive width and height whose
\* longest side exceeds a positive maxDimension, the new width and the new
\* height ResizeImage computes, and those of the image it returns, are at
\* least 1.
C35_NewSize == NewSize(call.imageData.width, call.imageData.height, call.maxDimension)
C35_AtLeastOnePixel ==
    TooLarge =>
        /\ C35_NewSize.width >= 1
        /\ C35_NewSize.height >= 1
        /\ call.out.err = Nil => (ResizedImage.width >= 1 /\ ResizedImage.height >= 1)

\* C36 (as stated): every name GetImageNames returns can be loaded by
\* LoadImageByName of the same repository, the names are pairwise distinct,
\* and loading a name returns the bytes of the file that produced it, also
\* when the base directory has subdirectories with image files.
C36_Producers(name) ==
    {d \in call.tree : ~d.isDir /\ HasImageExtension(Base(d.path)) /\ Base(d.path) = name}
C36_NamesLoadTheirFiles ==
    /\ ListingDone =>
            \A i \in 1..Len(call.out.names) : \A j \in 1..Len(call.out.names) :
                i # j => call.out.names[i] # call.out.names[j]
    /\ (ListingDone /\ call.load # <<>>) =>
            /\ call.load[1].out.err = Nil
            /\ \A d \in C36_Producers(call.out.names[call.load[1].index]) :
                    call.load[1].out.data = d.path

\* C37: isRefusalResponse is false for the empty text and for a text with none
\* of the refusal phrases; it is true, whatever the case, the length and the
\* lines around, for a text with sorry, transcribe and one of can't, cannot,
\* unable; a phrase of the short list alone makes a refusal exactly when the
\* text is shorter than 100 bytes.
RefusalDone == call.fn = "isRefusalResponse" /\ call.done
C37_WitnessShort ==
    /\ RefusalDone
    /\ call.class = "short"
    /\ Contains(call.text, "\nI'm sorry")
    /\ Len(call.text) >= 100
    /\ ~call.out

\* C38 (as stated): Enter moves the step on by exactly one only when the field
\* of the step is valid (directory, output file and API key not empty,
\* concurrency a positive integer), otherwise the step stays and an error
\* message is set; the model is completed only by Enter at the last step, a
\* completed model holds a config with InputDir, OutputFile and APIKey not
\* empty and Concurrency >= 1, and a cancelled model is never completed.
ConfigRun == call.fn = "configModel"
C38_PositiveInteger(s) ==
    /\ s # ""
    /\ \A i \in 1..Len(s) : \E k \in 1..10 : SubSeq("0123456789", k, k) = SubSeq(s, i, i)
    /\ \E i \in 1..Len(s) : SubSeq(s, i, i) # "0"
C38_FieldValid(m) ==
    CASE m.step = 0 -> m.inputDir # ""
      [] m.step = 1 -> m.outputFile # ""
      [] m.step = 2 -> m.apiKey # ""
      [] m.step = 3 -> C38_PositiveInteger(m.concurrency)
      [] OTHER -> TRUE
C38_EnterSteps ==
    (ConfigRun /\ call.key = "enter") =>
        /\ call.m.step \in {call.before.step, call.before.step + 1}
        /\ call.m.step = call.before.step + 1 => C38_FieldValid(call.before)
        /\ ~C38_FieldValid(call.before) =>
                (call.m.step = call.before.step /\ call.m.err # "")
        /\ (C38_FieldValid(call.before) /\ call.before.step < 4) =>
                call.m.step = call.before.step + 1
C38_CompletedByLastEnter ==
    ConfigRun =>
        /\ (call.m.completed /\ ~call.before.completed) =>
                (call.key = "enter" /\ call.before.step = 4)
        /\ call.m.completed =>
                /\ call.m.config.InputDir # ""
                /\ call.m.config.OutputFile # ""
                /\ call.m.config.APIKey # ""
                /\ call.m.config.Concurrency >= 1
C38_CancelledNotCompleted ==
    ConfigRun => ~(call.m.cancelled /\ call.m.completed)
C38_ConfigModel == C38_EnterSteps /\ C38_CompletedByLastEnter /\ C38_CancelledNotCompleted

\* C39 (as stated): Start, Stop and UpdateProgress may be called from several
\* goroutines at once without deadlock; Stop is idempotent, UpdateProgress
\* after Stop changes nothing, and when the calls are over and the last one to
\* finish was a Stop, no spinner started earlier is still running.
SpinnerRun == call.fn = "spinner"
SpinnerIdle == \A g \in 1..MaxGoroutines : call.pc[g] = "idle"
C39_NoDeadlock ==
    SpinnerRun =>
        (call.mu # 0 =>
            call.pc[call.mu] \in {"Start.Stop.body", "Start.body", "Stop.body",
                                  "UpdateProgress.body"})
C39_StoppedStaysStopped ==
    (SpinnerRun /\ call.last \in {"Stop", "UpdateProgress"} /\ call.before.cancelFunc = 0) =>
        call.s = call.before
C39_NothingLeftRunning ==
    (SpinnerRun /\ SpinnerIdle /\ call.last = "Stop") => call.s.running = {}
C39_ConcurrentCallsTolerated ==
    C39_NoDeadlock /\ C39_StoppedStaysStopped /\ C39_NothingLeftRunning

====
